---- MODULE Spec2Model ----
(***************************************************************************)
(* Verification model of cattysend-core.                                   *)
(*                                                                         *)
(*   Spec           ReceiverClient::start, the receiver's side of the      *)
(*                  WebSocket control protocol and the download that       *)
(*                  follows it (transfer/receiver_client.rs)               *)
(*   SenderWsSpec   handle_websocket_connection, the sender's side of the  *)
(*                  control protocol (transfer/sender_server.rs)           *)
(*   SendWorkflowSpec  Sender::send_to_device with the TransferServer it  *)
(*                  starts, the Wi-Fi group and the peers that reach the   *)
(*                  server (workflow/sender.rs, transfer/sender_server.rs) *)
(*   ReceiveWorkflowSpec  Receiver::start from the GATT server to the      *)
(*                  Wi-Fi disconnect, with WiFiP2pReceiver                 *)
(*                  (workflow/receiver.rs, wifi/p2p_receiver.rs)           *)
(*   CryptoSpec     SessionCipher::encrypt / decrypt called on strings     *)
(*                  under one session key (crypto/ble_security.rs)         *)
(*   BleHandshakeSpec  BleClient::connect_and_handshake against the GATT   *)
(*                  server's STATUS read and P2P write handler             *)
(*                  (ble/client.rs, ble/server.rs, crypto/ble_security.rs) *)
(*   GattServerSpec  the GATT server's P2P write handler under writes of   *)
(*                  any central, and the consumer of its channel           *)
(*                  (ble/server.rs)                                        *)
(*   ScanSpec       BleScanner::scan over DeviceAdded events and the       *)
(*                  device cache, with parse_device (ble/scanner.rs)       *)
(*   WifiSenderSpec  WiFiP2pSender::create_group / stop_group with the      *)
(*                  NetworkManager connections and P2P groups they leave   *)
(*                  (wifi/p2p_sender.rs, wifi/nm_dbus.rs)                  *)
(*   DownloadSpec    GET /download on the sender's server and the receiver's *)
(*                  extraction of the body (transfer/sender_server.rs,     *)
(*                  transfer/receiver_client.rs)                           *)
(*   ProtocolSpec    WsMessage::parse and its Display on message texts       *)
(*                  (transfer/protocol.rs)                                 *)
(*   GattStartSpec   GattServer::start: adapter, GATT application and the    *)
(*                  advertisement it registers (ble/server.rs)             *)
(*   BrandSpec       Brand::from on every signed 16-bit id (ble/scanner.rs)  *)
(*   MgmtAdvSpec     LegacyAdvConfig::catshare_compatible and                *)
(*                  MgmtLegacyAdvertiser new / start / stop                *)
(*                  (ble/mgmt_advertiser.rs)                               *)
(*   SettingsSpec    AppSettings::load on a settings file (config.rs)        *)
(*   TransferServerSpec  the WebSocket connections of one TransferServer     *)
(*   MetadataSpec    the advertised service data, as the scanner decodes it  *)
(***************************************************************************)
EXTENDS Integers, Sequences, FiniteSets, TLC

\* ------------------------------------------------------------------ bounds
\* Frames the peer delivers on one WebSocket connection.
MaxFrames == 3
\* Message ids the peer uses are 0..MaxPeerId.
MaxPeerId == 1

\* Connection attempts peers make against the transfer server.
MaxAttempts == 2

\* Strings are at most this long.
MaxStrLen == 3
\* encrypt / decrypt calls on one SessionCipher.
MaxCalls == 3

\* connect_and_handshake calls in one session.
MaxHandshakes == 2
\* P2P_CHAR writes made by centrals other than BleClient, more than the channel
\* holds.
MaxPeerWrites == 18
\* Of these, the writes that are no plain P2pInfo.
MaxOddWrites == 1

\* DeviceAdded events handled before the scan's timeout.
MaxScanEvents == 3

\* create_group and stop_group calls on one WiFiP2pSender.
MaxGroupCalls == 3

\* GET /download requests served by one server.
MaxDownloads == 2
\* Files of the task the server holds.
MaxTaskFiles == 2

\* Bytes of the longest device name handed to the advertisement builder.
MaxNameLen == 30
\* start and stop calls on one MgmtLegacyAdvertiser.
MaxAdvCalls == 3

\* WebSocket connections the transfer server accepts.
MaxConns == 2
\* Frames read on one of these connections.
MaxConnFrames == 2

\* ------------------------------------------------------- program constants
\* The largest port number: TransferServer.port is a u16 (sender_server.rs:77).
U16Max == 65535
\* status type of a refusal (receiver_client.rs:155) and of completion (:192)
StatusRefused == 3
StatusOk == 1

VARIABLES
    pc,          \* where ReceiverClient::start is: "loop", "download", "extract",
                 \* "report", "returned"
    msg_id,      \* receiver_client.rs:84
    task_id,     \* receiver_client.rs:85, an Option
    total_size,  \* receiver_client.rs:86
    frames,      \* frames read from the socket so far
    trace,       \* what the receiver did, in order: frames read, write.send calls,
                 \* callbacks, the download request and its stages
    result       \* the value start returned, "none" while it runs

\* handle_websocket_connection (sender_server.rs:178-285)
VARIABLES
    srv_pc,      \* "idle" (not run), "accept", "loop", "returned"
    srv_msg_id,  \* sender_server.rs:185
    srv_frames,  \* frames read from the socket so far
    srv_trace,   \* frames read, write.send calls, status_tx.send calls, in order
    srv_result   \* the value the handler returned, "none" while it runs

\* Sender::send_to_device (workflow/sender.rs:76-188), TransferServer
\* (sender_server.rs:76-175) and WiFiP2pSender (wifi/p2p_sender.rs)
VARIABLES
    wf_entry,       \* what the embedding called: "send_to_device", or the server's
                    \* "start_with_websocket" directly; "idle" when neither runs
    wf_pc,          \* where send_to_device is
    wf_result,      \* the value send_to_device returned, "none" while it runs
    wf_events,      \* the progress sink's terminal callbacks, in order
    port,           \* TransferServer.port (sender_server.rs:77)
    port_ret,       \* the port start / start_with_websocket returned, 0 before
    listeners,      \* the sockets the server accepts on
    active_hotspot, \* WiFiP2pSender.active_hotspot (p2p_sender.rs:54), an Option
    hotspots,       \* the hotspots / groups that exist on the host
    stop_calls,     \* calls of stop_group
    p2p_info,       \* the P2pInfo create_group returned, an Option
    ble_done,       \* connect_and_handshake returned Ok: the peer holds p2p_info
    subscribed,     \* a status receiver exists (subscribe_status_async)
    status_rx,      \* the statuses queued for that receiver
    ctl,            \* a peer's control connection: "none", "open", "closed"
    attempts        \* the connection attempts peers made, in order

\* Receiver::start (workflow/receiver.rs:84-168) and the WiFiP2pReceiver it owns
\* (wifi/p2p_receiver.rs:49-57)
VARIABLES
    rw_pc,                      \* where Receiver::start is
    rw_result,                  \* what it returned, "none" while it runs
    rw_events,                  \* the progress sink's terminal callbacks, in order
    rw_connected_on,            \* the interface connect succeeded on, an Option
    active_interface,           \* WiFiP2pReceiver.active_interface, an Option
    created_virtual_interface,  \* WiFiP2pReceiver.created_virtual_interface
    network_id,                 \* WiFiP2pReceiver.network_id, an Option
    assoc,                      \* host: the interfaces associated with the hotspot
    ifaces,                     \* host: the Wi-Fi interfaces that exist
    disconnect_calls            \* calls of WiFiP2pReceiver::disconnect

rwVars == <<rw_pc, rw_result, rw_events, rw_connected_on, active_interface,
            created_virtual_interface, network_id, assoc, ifaces, disconnect_calls>>

\* A SessionCipher and the calls made on it (crypto/ble_security.rs:53-55, 199-241)
VARIABLES
    cr_key,     \* SessionCipher.key
    cr_msg,     \* the string the caller holds
    cr_calls    \* the encrypt / decrypt calls made, with argument and result

crVars == <<cr_key, cr_msg, cr_calls>>

\* BleClient::connect_and_handshake (ble/client.rs:62-138) and the GATT server
\* (ble/server.rs:75-88, 200-228, 366-404)
VARIABLES
    bc_pc,          \* where connect_and_handshake is
    bc_result,      \* what the call returned, "none" while it runs
    bc_link,        \* the client is connected to the peripheral
    bc_input,       \* the call's p2p_info argument
    bc_device_info, \* the DeviceInfo the call read, an Option
    bc_p2p_data,    \* the blob the call built, an Option
    bc_ops,         \* the GATT operations the call performed, in order
    bc_calls,       \* calls of connect_and_handshake so far
    bc_write,       \* index in gs_writes of the call's write, 0 before it
    key_count,      \* key pairs created so far
    agreements,     \* the key agreements performed, by key pair
    gs_security,    \* GattServer.security, an Option
    gs_status,      \* the bytes the peripheral returns for a STATUS read
    gs_writes,      \* the P2P_CHAR writes handled, with what the handler did
    p2p_chan,       \* the events pending in the mpsc channel
    p2p_waiting,    \* handlers waiting in p2p_tx.send for capacity, in order
    p2p_received,   \* the events the consumer took with p2p_rx.recv
    peer_writes     \* writes of other centrals that were no plain P2pInfo

bleVars == <<bc_pc, bc_result, bc_link, bc_input, bc_device_info, bc_p2p_data,
             bc_ops, bc_calls, bc_write, key_count, agreements, gs_security,
             gs_status, gs_writes, p2p_chan, p2p_waiting, p2p_received, peer_writes>>

\* BleScanner::scan (ble/scanner.rs:202-286)
VARIABLES
    sc_pc,          \* "events" in the select loop, "cache" in the walk, "returned"
    discovered_map, \* discovered_map: for each address its device, an Option
    sc_callback,    \* the caller passed a callback
    sc_callbacks,   \* the devices on_device_found was called with, in order
    sc_events,      \* DeviceAdded events handled so far
    sc_todo,        \* cached addresses the walk has not yet looked at
    sc_last,        \* the last parse_device call: its properties and result
    sc_first,       \* for each address the device of its first matching observation
    sc_passed,      \* the last device passed over as already in the map
    sc_result       \* the Vec scan returned, as the set of its entries

scVars == <<sc_pc, discovered_map, sc_callback, sc_callbacks, sc_events, sc_todo,
            sc_last, sc_first, sc_passed, sc_result>>

\* WiFiP2pSender (wifi/p2p_sender.rs:51-55) and what it leaves on the host
VARIABLES
    nm_client,          \* nm_client holds an NmClient
    gp_active_hotspot,  \* active_hotspot, an Option
    nm_connections,     \* the NM connection objects this sender added that exist
    wpa_groups,         \* the P2P groups this sender added that exist, by ssid
    gp_paths,           \* connection objects added so far
    gp_last,            \* the last call: what it was and how it ended
    gp_calls            \* calls so far

gpVars == <<nm_client, gp_active_hotspot, nm_connections, wpa_groups, gp_paths,
            gp_last, gp_calls>>

\* The download endpoint (transfer/sender_server.rs:287-340) and the
\* receiver's extraction (transfer/receiver_client.rs:200-241)
VARIABLES
    dl_task,        \* TransferServerState.task
    dl_fs,          \* the sender's files: path -> contents, None when unreadable
    dl_log,         \* the requests served, each with its response
    rx_output_dir,  \* the receiver's output directory: file name -> contents
    rx_files        \* what extract_zip returned, None before the call

dlVars == <<dl_task, dl_fs, dl_log, rx_output_dir, rx_files>>

\* WsMessage::parse / Display (transfer/protocol.rs:26-55) applied to a text
VARIABLES
    ws_pc,          \* "text", "parsed", "formatted", "reparsed"
    ws_text,        \* the text received
    ws_msg,         \* WsMessage::parse(text)
    ws_formatted,   \* to_string() of the parsed message
    ws_reparsed     \* WsMessage::parse of the formatted text

wsVars == <<ws_pc, ws_text, ws_msg, ws_formatted, ws_reparsed>>

\* GattServer::start (ble/server.rs:157-360)
VARIABLES
    adv_pc,         \* "new", "adapter", "served", "returned"
    adv_server,     \* random_data, brand_id, supports_5ghz of the GattServer
    mgmt_socket,    \* whether the privileged management socket can be opened
    adv_tried,      \* the advertising backends start called, in order
    adv_handle,     \* the advertisement registered with the adapter, an Option
    adv_ret         \* what start returned, None before

advVars == <<adv_pc, adv_server, mgmt_socket, adv_tried, adv_handle, adv_ret>>

\* impl From<i16> for Brand (ble/scanner.rs:84-112)
VARIABLES
    br_id,          \* the id handed to Brand::from
    br_brand        \* what it returned, None before the call

brVars == <<br_id, br_brand>>

\* LegacyAdvConfig and MgmtLegacyAdvertiser (ble/mgmt_advertiser.rs)
VARIABLES
    mg_args,        \* the arguments of catshare_compatible
    mg_config,      \* the LegacyAdvConfig built, None before
    mg_client,      \* MgmtLegacyAdvertiser::new returned an advertiser
    mg_active,      \* MgmtLegacyAdvertiser.active
    mg_instances,   \* advertising instances registered with the controller
    mg_last,        \* the last start or stop call and what it returned
    mg_calls        \* start and stop calls so far

mgVars == <<mg_args, mg_config, mg_client, mg_active, mg_instances, mg_last, mg_calls>>

\* AppSettings::load (config.rs:110-130)
VARIABLES
    st_file,        \* the settings file: missing, unreadable, or its text
    st_settings     \* what load returned, None before the call

stVars == <<st_file, st_settings>>

\* TransferServer::start_with_websocket, its spawned connection handlers
\* (sender_server.rs:157-166) and the status channel they share
VARIABLES
    mc_conns,       \* per connection: the handler's position, msg_id, frames read
    mc_sent,        \* the status_tx.send calls, in order, each with its connection
    mc_status_rx    \* what the subscriber's receiver was handed; None before subscribe

mcVars == <<mc_conns, mc_sent, mc_status_rx>>

\* GattServer::start's service data (server.rs:271-325) and
\* BleScanner::parse_service_metadata (scanner.rs:395-439)
VARIABLES
    md_server,        \* the advertising GattServer
    md_service_data,  \* the service data it advertises, None before start
    md_metadata       \* what the scanner decoded from it, None before the scan

mdVars == <<md_server, md_service_data, md_metadata>>

rcVars == <<pc, msg_id, task_id, total_size, frames, trace, result>>
wfVars == <<wf_entry, wf_pc, wf_result, wf_events, port, port_ret, listeners,
            active_hotspot, hotspots, stop_calls, p2p_info, ble_done, subscribed,
            status_rx, ctl, attempts>>
srvVars == <<srv_pc, srv_msg_id, srv_frames, srv_trace, srv_result>>
vars == <<rcVars, srvVars, wfVars, rwVars, crVars, bleVars, scVars, gpVars, dlVars, wsVars, advVars, brVars, mgVars, stVars, mcVars, mdVars>>

\* What an action of one component leaves alone: the other components' state.
notRc == <<srvVars, wfVars, rwVars, crVars, bleVars, scVars, gpVars, dlVars, wsVars, advVars, brVars, mgVars, stVars, mcVars, mdVars>>
notSrv == <<rcVars, wfVars, rwVars, crVars, bleVars, scVars, gpVars, dlVars, wsVars, advVars, brVars, mgVars, stVars, mcVars, mdVars>>
notWf == <<rcVars, srvVars, rwVars, crVars, bleVars, scVars, gpVars, dlVars, wsVars, advVars, brVars, mgVars, stVars, mcVars, mdVars>>
notRw == <<rcVars, srvVars, wfVars, crVars, bleVars, scVars, gpVars, dlVars, wsVars, advVars, brVars, mgVars, stVars, mcVars, mdVars>>
notCr == <<rcVars, srvVars, wfVars, rwVars, bleVars, scVars, gpVars, dlVars, wsVars, advVars, brVars, mgVars, stVars, mcVars, mdVars>>
notBle == <<rcVars, srvVars, wfVars, rwVars, crVars, scVars, gpVars, dlVars, wsVars, advVars, brVars, mgVars, stVars, mcVars, mdVars>>
notSc == <<rcVars, srvVars, wfVars, rwVars, crVars, bleVars, gpVars, dlVars, wsVars, advVars, brVars, mgVars, stVars, mcVars, mdVars>>
notGp == <<rcVars, srvVars, wfVars, rwVars, crVars, bleVars, scVars, dlVars, wsVars, advVars, brVars, mgVars, stVars, mcVars, mdVars>>
notDl == <<rcVars, srvVars, wfVars, rwVars, crVars, bleVars, scVars, gpVars, wsVars, advVars, brVars, mgVars, stVars, mcVars, mdVars>>
notWs == <<rcVars, srvVars, wfVars, rwVars, crVars, bleVars, scVars, gpVars, dlVars, advVars, brVars, mgVars, stVars, mcVars, mdVars>>
notAdv == <<rcVars, srvVars, wfVars, rwVars, crVars, bleVars, scVars, gpVars, dlVars, wsVars, brVars, mgVars, stVars, mcVars, mdVars>>
notBr == <<rcVars, srvVars, wfVars, rwVars, crVars, bleVars, scVars, gpVars, dlVars, wsVars, advVars, mgVars, stVars, mcVars, mdVars>>
notMg == <<rcVars, srvVars, wfVars, rwVars, crVars, bleVars, scVars, gpVars, dlVars, wsVars, advVars, brVars, stVars, mcVars, mdVars>>
notSt == <<rcVars, srvVars, wfVars, rwVars, crVars, bleVars, scVars, gpVars, dlVars, wsVars, advVars, brVars, mgVars, mcVars, mdVars>>
notMc == <<rcVars, srvVars, wfVars, rwVars, crVars, bleVars, scVars, gpVars, dlVars, wsVars, advVars, brVars, mgVars, stVars, mdVars>>
notMd == <<rcVars, srvVars, wfVars, rwVars, crVars, bleVars, scVars, gpVars, dlVars, wsVars, advVars, brVars, mgVars, stVars, mcVars>>

\* ------------------------------------------------------------ Option, JSON
None == <<>>
Some(v) == <<v>>
IsSome(o) == o # <<>>
Unwrap(o) == o[1]

PeerIds == 0..MaxPeerId
TaskIds == {"T1", "T2"}

\* A JSON object that lacks SendRequest's required fields.
JsonObject == [k |-> "object"]
\* A JSON object holding every required field of SendRequest; taskId and id are
\* "null" when the key is absent.
SendRequestJson(t, i, sz) ==
    [k |-> "sendRequest", taskId |-> t, id |-> i, totalSize |-> sz]
SendRequestJsons ==
    { SendRequestJson("T1", "T2", 10), SendRequestJson("T1", "null", 10),
      SendRequestJson("null", "T2", 20), SendRequestJson("null", "null", 20) }

\* ------------------------------------------------- protocol.rs: WsMessage
WsMessage(msg_type, id, name, payload) ==
    [msg_type |-> msg_type, id |-> id, name |-> name, payload |-> payload]

WsAction(id, name, payload) == WsMessage("action", id, name, payload)

WsAck(id, name, payload) == WsMessage("ack", id, name, payload)

WsStatus(id, tid, status_type, reason) ==
    WsAction(id, "status",
             Some([k |-> "status", taskId |-> tid, id |-> tid,
                   type |-> status_type, reason |-> reason]))

WsVersionNegotiation(id) ==
    WsAction(id, "versionNegotiation",
             Some([k |-> "versions", version |-> 1, versions |-> <<1>>]))

\* The text after "?" of a frame: absent, not JSON, or a JSON document.
PayloadTexts(jsons) ==
    {[q |-> "absent"], [q |-> "garbage"]} \cup {[q |-> "json", json |-> j] : j \in jsons}

\* A text frame that matches MSG_PATTERN. Its digits denote id; fits says whether
\* that number fits u32 (a longer run of digits does not, and id then stands for
\* the digits only).
TextFrame(msg_type, id, name, p) ==
    [kind |-> "text", msg_type |-> msg_type, id |-> id, fits |-> TRUE,
     name |-> name, payload |-> p]

Overlong(f) == [f EXCEPT !.fits = FALSE]

\* WsMessage::parse on a text frame: None when the pattern does not match or the
\* id does not fit u32; the payload is None when absent or not JSON.
Parse(f) ==
    IF f.kind # "text" \/ ~f.fits
    THEN None
    ELSE Some(WsMessage(f.msg_type, f.id, f.name,
                        IF f.payload.q = "json" THEN Some(f.payload.json) ELSE None))

\* serde_json::from_value::<SendRequest>
FromValueSendRequest(json) ==
    IF json.k = "sendRequest"
    THEN Some([task_id |-> IF json.taskId = "null" THEN None ELSE Some(json.taskId),
               id |-> IF json.id = "null" THEN None ELSE Some(json.id),
               total_size |-> json.totalSize])
    ELSE None

GetTaskIdIdFirst(request) ==
    IF IsSome(request.id) THEN Unwrap(request.id)
    ELSE IF IsSome(request.task_id) THEN Unwrap(request.task_id)
    ELSE "unknown"

\* SendRequest::get_task_id
GetTaskId(request) ==
    IF IsSome(request.task_id) THEN Unwrap(request.task_id)
    ELSE IF IsSome(request.id) THEN Unwrap(request.id)
    ELSE "unknown"

\* ------------------------------------------------------ frames of the peer
Frames ==
    { TextFrame(t, i, "versionNegotiation", [q |-> "json", json |-> JsonObject]) :
        t \in {"action", "ack"}, i \in PeerIds }
    \cup
    { TextFrame("action", i, "sendRequest", p) :
        i \in PeerIds, p \in PayloadTexts({JsonObject} \cup SendRequestJsons) }
    \cup
    { TextFrame("action", i, "status", [q |-> "absent"]) : i \in PeerIds }
    \cup
    { TextFrame("action", 0, "versionNegotiation", [q |-> "absent"]),
      TextFrame("ack", 0, "sendRequest",
                [q |-> "json", json |-> SendRequestJson("T1", "T2", 10)]),
      TextFrame("ack", 0, "status", [q |-> "json", json |-> JsonObject]),
      Overlong(TextFrame("action", 0, "versionNegotiation", [q |-> "absent"])),
      [kind |-> "badtext"], [kind |-> "binary"], [kind |-> "close"],
      [kind |-> "error"], [kind |-> "end"] }

\* ------------------------------------------------------------ trace events
Recv(f) == [ev |-> "recv", frame |-> f]
Send(m, ok) == [ev |-> "send", msg |-> m, ok |-> ok]
Policy(request, accept) == [ev |-> "on_send_request", request |-> request, accept |-> accept]
Get(tid) == [ev |-> "get", path |-> "/download", taskId |-> tid]
Ev(name) == [ev |-> name]

\* ------------------------------------------- ReceiverClient::start, by step
\* What one step of start leaves behind.
Step(events, npc, res, mid, tid, tsz) ==
    [events |-> events, pc |-> npc, result |-> res, msg_id |-> mid,
     task_id |-> tid, total_size |-> tsz]

Continue(events) == Step(events, "loop", "none", msg_id, task_id, total_size)

Return(events, res) == Step(events, "returned", res, msg_id, task_id, total_size)

AfterLoopUnknownTask(events, tid, tsz) ==
    Step(events \o <<Get(IF tid = None THEN "unknown" ELSE Unwrap(tid))>>, "download",
         "none", msg_id, tid, tsz)

\* After the loop: the task id is required, then the download request is issued.
AfterLoop(events, tid, tsz) ==
    IF tid = None
    THEN Step(events, "returned", "Err:No task ID received", msg_id, tid, tsz)
    ELSE Step(events \o <<Get(Unwrap(tid))>>, "download", "none", msg_id, tid, tsz)

OnVersionNegotiationOwnId(m, sendOk) ==
    LET ack == WsAck(msg_id, "versionNegotiation",
                     Some([k |-> "versionAck", version |-> 1, threadLimit |-> 5]))
    IN  IF sendOk THEN Continue(<<Send(ack, TRUE)>>)
        ELSE Return(<<Send(ack, FALSE)>>, "Err:send")

\* receiver_client.rs:114-125
OnVersionNegotiation(m, sendOk) ==
    LET ack == WsAck(m.id, "versionNegotiation",
                     Some([k |-> "versionAck", version |-> 1, threadLimit |-> 5]))
    IN  IF sendOk THEN Continue(<<Send(ack, TRUE)>>)
        ELSE Return(<<Send(ack, FALSE)>>, "Err:send")

\* receiver_client.rs:143-151, the policy accepted
Accept(m, request, sendOk) ==
    LET ack == WsAck(m.id, "sendRequest", None)
        tid == Some(GetTaskId(request))
    IN  IF sendOk
        THEN AfterLoop(<<Policy(request, TRUE), Send(ack, TRUE)>>, tid, request.total_size)
        ELSE Step(<<Policy(request, TRUE), Send(ack, FALSE)>>, "returned", "Err:send",
                  msg_id, tid, request.total_size)

RejectAndContinue(m, request, sendOk) ==
    LET status == WsStatus(msg_id + 1, GetTaskId(request), StatusRefused, "user refuse")
    IN  Step(<<Policy(request, FALSE), Send(status, sendOk)>>, "loop", "none",
             msg_id + 1, task_id, request.total_size)

\* receiver_client.rs:152-158, the policy refused
Reject(m, request, sendOk) ==
    LET status == WsStatus(msg_id + 1, GetTaskId(request), StatusRefused, "user refuse")
    IN  Step(<<Policy(request, FALSE), Send(status, sendOk)>>, "returned",
             IF sendOk THEN "Err:User rejected transfer" ELSE "Err:send",
             msg_id + 1, task_id, request.total_size)

\* receiver_client.rs:127-160
OnSendRequest(m, accept, sendOk) ==
    IF m.payload = None
    THEN Continue(<<>>)
    ELSE LET parsed == FromValueSendRequest(Unwrap(m.payload))
         IN  IF parsed = None
             THEN Return(<<>>, "Err:Protocol error")
             ELSE IF accept THEN Accept(m, Unwrap(parsed), sendOk)
                  ELSE Reject(m, Unwrap(parsed), sendOk)

OnOtherOwnId(m, sendOk) ==
    LET ack == WsAck(msg_id, m.name, None)
    IN  IF sendOk THEN Continue(<<Send(ack, TRUE)>>)
        ELSE Return(<<Send(ack, FALSE)>>, "Err:send")

\* receiver_client.rs:162-166
OnOther(m, sendOk) ==
    LET ack == WsAck(m.id, m.name, None)
    IN  IF sendOk THEN Continue(<<Send(ack, TRUE)>>)
        ELSE Return(<<Send(ack, FALSE)>>, "Err:send")

\* receiver_client.rs:89-168, one turn of the message loop on frame f
OnFrame(f, accept, sendOk) ==
    CASE f.kind \in {"close", "end"} -> AfterLoop(<<>>, task_id, total_size)
      [] f.kind = "error" -> Return(<<Ev("on_error")>>, "Err:WebSocket")
      [] f.kind = "binary" -> Continue(<<>>)
      [] OTHER ->
           LET parsed == Parse(f)
           IN  IF parsed = None THEN Continue(<<>>)
               ELSE LET m == Unwrap(parsed)
                    IN  CASE m.name = "versionNegotiation" -> OnVersionNegotiation(m, sendOk)
                          [] m.name = "sendRequest" -> OnSendRequest(m, accept, sendOk)
                          [] OTHER -> OnOther(m, sendOk)

Apply(first, s) ==
    /\ trace' = trace \o first \o s.events
    /\ pc' = s.pc
    /\ result' = s.result
    /\ msg_id' = s.msg_id
    /\ task_id' = s.task_id
    /\ total_size' = s.total_size

\* The peer's next frame arrives and is handled.
ReadFrame ==
    /\ pc = "loop"
    /\ frames < MaxFrames
    /\ \E f \in Frames, accept \in BOOLEAN, sendOk \in BOOLEAN :
          Apply(<<Recv(f)>>, OnFrame(f, accept, sendOk))
    /\ frames' = frames + 1
    /\ UNCHANGED notRc

\* receiver_client.rs:184-185, the response and its body arrive, or fail
Download ==
    /\ pc = "download"
    /\ \E ok \in BOOLEAN :
          Apply(<<>>, IF ok
                      THEN Step(<<Ev("download_ok")>>, "extract", "none",
                                msg_id, task_id, total_size)
                      ELSE Return(<<Ev("download_err")>>, "Err:download"))
    /\ UNCHANGED <<frames, notRc>>

\* receiver_client.rs:188, extract_zip succeeds or fails
Extract ==
    /\ pc = "extract"
    /\ \E ok \in BOOLEAN :
          Apply(<<>>, IF ok
                      THEN Step(<<Ev("extract_ok")>>, "report", "none",
                                msg_id, task_id, total_size)
                      ELSE Return(<<Ev("extract_err")>>, "Err:extract"))
    /\ UNCHANGED <<frames, notRc>>

ReportStepEarly(sendOk) ==
    LET status == WsStatus(msg_id + 1, Unwrap(task_id), StatusOk, "ok")
    IN  Step(<<Ev("on_complete"), Send(status, sendOk)>>, "returned",
             IF sendOk THEN "Ok" ELSE "Err:send", msg_id + 1, task_id, total_size)

\* receiver_client.rs:190-197
ReportStep(sendOk) ==
    LET status == WsStatus(msg_id + 1, Unwrap(task_id), StatusOk, "ok")
    IN  IF sendOk
        THEN Step(<<Send(status, TRUE), Ev("on_complete")>>, "returned", "Ok",
                  msg_id + 1, task_id, total_size)
        ELSE Step(<<Send(status, FALSE)>>, "returned", "Err:send",
                  msg_id + 1, task_id, total_size)

Report ==
    /\ pc = "report"
    /\ \E sendOk \in BOOLEAN : Apply(<<>>, ReportStep(sendOk))
    /\ UNCHANGED <<frames, notRc>>

RcInit ==
    /\ pc = "loop"
    /\ msg_id = 0
    /\ task_id = None
    /\ total_size = 0
    /\ frames = 0
    /\ trace = <<>>
    /\ result = "none"

\* ReceiverClient::start is not running.
RcIdle ==
    /\ pc = "idle"
    /\ msg_id = 0
    /\ task_id = None
    /\ total_size = 0
    /\ frames = 0
    /\ trace = <<>>
    /\ result = "none"

\* --------------------------- sender_server.rs: handle_websocket_connection
\* The task the server holds (TransferServerState.task).
Task ==
    [task_id |-> "T1", sender_id |-> "ab12", sender_name |-> "host",
     files |-> <<[name |-> "a.txt", size |-> 4], [name |-> "b.bin", size |-> 6]>>]

RECURSIVE SumSizes(_)
SumSizes(files) ==
    IF files = <<>> THEN 0 ELSE files[1].size + SumSizes(Tail(files))

\* serde_json::Value::get on an object
JsonGet(json, key) == IF key \in DOMAIN json THEN Some(json[key]) ELSE None

UnwrapOr(o, default) == IF o = None THEN default ELSE Unwrap(o)

\* Status payloads a peer may send: with and without type and reason.
StatusJsons ==
    { [k |-> "status", type |-> 1, reason |-> "ok"],
      [k |-> "status", type |-> 3, reason |-> "user refuse"],
      [k |-> "status", type |-> 3],
      [k |-> "status", type |-> 2, reason |-> "disk full"],
      [k |-> "status", reason |-> "no type"] }

SrvFrames ==
    { TextFrame(t, i, "versionNegotiation", [q |-> "json", json |-> JsonObject]) :
        t \in {"ack", "action", "nack"}, i \in PeerIds }
    \cup
    { TextFrame("ack", i, "sendRequest", [q |-> "absent"]) : i \in PeerIds }
    \cup
    { TextFrame("action", i, "status", p) :
        i \in PeerIds, p \in PayloadTexts(StatusJsons) }
    \cup
    { TextFrame("ack", 0, "status", [q |-> "json", json |-> [k |-> "status", type |-> 1]]),
      [kind |-> "badtext"], [kind |-> "binary"], [kind |-> "close"],
      [kind |-> "error"], [kind |-> "end"] }

Broadcast(status) == [ev |-> "status_tx", status |-> status]
Completed == [s |-> "Completed"]
Rejected(reason) == [s |-> "Rejected", reason |-> reason]
Failed(error) == [s |-> "Failed", error |-> error]

SrvStep(events, npc, res, mid) ==
    [events |-> events, pc |-> npc, result |-> res, msg_id |-> mid]

SrvContinue(events) == SrvStep(events, "loop", "none", srv_msg_id)

SrvReturn(events, res) == SrvStep(events, "returned", res, srv_msg_id)

IsAnyAck(m) == m.msg_type = "ack"

\* sender_server.rs:217-218
IsVersionAck(m) == m.msg_type = "ack" /\ m.name = "versionNegotiation"

\* sender_server.rs:219-247
SrvOnVersionAck(sendOk) ==
    LET send_req == WsAction(srv_msg_id + 1, "sendRequest",
                             Some(SendRequestJson(Task.task_id, Task.task_id,
                                                  SumSizes(Task.files))))
    IN  SrvStep(<<Send(send_req, sendOk)>>,
                IF sendOk THEN "loop" ELSE "returned",
                IF sendOk THEN "none" ELSE "Err:send", srv_msg_id + 1)

\* sender_server.rs:255-278, after the ack of a status action went out
SrvOnStatus(payload) ==
    LET status_type == UnwrapOr(JsonGet(payload, "type"), 0)
    IN  CASE status_type = 1 -> SrvReturn(<<Broadcast(Completed)>>, "Ok")
          [] status_type = 3 ->
               SrvReturn(<<Broadcast(Rejected(UnwrapOr(JsonGet(payload, "reason"),
                                                       "rejected")))>>, "Ok")
          [] OTHER -> SrvContinue(<<>>)

\* sender_server.rs:250-279
SrvOnAction(m, sendOk) ==
    LET ack == WsAck(m.id, m.name, None)
    IN  IF ~sendOk THEN SrvReturn(<<Send(ack, FALSE)>>, "Err:send")
        ELSE IF m.name = "status" /\ m.payload # None
             THEN LET s == SrvOnStatus(Unwrap(m.payload))
                  IN  [s EXCEPT !.events = <<Send(ack, TRUE)>> \o @]
             ELSE SrvContinue(<<Send(ack, TRUE)>>)

\* sender_server.rs:192-282, one turn of the message loop on frame f
SrvOnFrame(f, sendOk) ==
    CASE f.kind \in {"close", "end", "error"} -> SrvReturn(<<>>, "Ok")
      [] f.kind = "binary" -> SrvContinue(<<>>)
      [] OTHER ->
           LET parsed == Parse(f)
           IN  IF parsed = None THEN SrvContinue(<<>>)
               ELSE LET m == Unwrap(parsed)
                    IN  CASE m.msg_type = "ack" ->
                               IF IsVersionAck(m) THEN SrvOnVersionAck(sendOk)
                               ELSE SrvContinue(<<>>)
                          [] m.msg_type = "action" -> SrvOnAction(m, sendOk)
                          [] OTHER -> SrvContinue(<<>>)

SrvApply(first, s) ==
    /\ srv_trace' = srv_trace \o first \o s.events
    /\ srv_pc' = s.pc
    /\ srv_result' = s.result
    /\ srv_msg_id' = s.msg_id

\* sender_server.rs:182-189: the WebSocket handshake, then versionNegotiation
SrvHelloStep(acceptOk, sendOk) ==
    IF ~acceptOk THEN SrvReturn(<<>>, "Err:accept")
    ELSE IF sendOk THEN SrvContinue(<<Send(WsVersionNegotiation(srv_msg_id), TRUE)>>)
         ELSE SrvReturn(<<Send(WsVersionNegotiation(srv_msg_id), FALSE)>>, "Err:send")

SrvHello ==
    /\ srv_pc = "accept"
    /\ \E acceptOk \in BOOLEAN, sendOk \in BOOLEAN :
          SrvApply(<<>>, SrvHelloStep(acceptOk, sendOk))
    /\ UNCHANGED <<srv_frames, notSrv>>

SrvReadFrame ==
    /\ srv_pc = "loop"
    /\ srv_frames < MaxFrames
    /\ \E f \in SrvFrames, sendOk \in BOOLEAN :
          SrvApply(<<Recv(f)>>, SrvOnFrame(f, sendOk))
    /\ srv_frames' = srv_frames + 1
    /\ UNCHANGED notSrv

SrvInit ==
    /\ srv_pc = "accept"
    /\ srv_msg_id = 0
    /\ srv_frames = 0
    /\ srv_trace = <<>>
    /\ srv_result = "none"

\* No WebSocket connection is being handled.
SrvIdle ==
    /\ srv_pc = "idle"
    /\ srv_msg_id = 0
    /\ srv_frames = 0
    /\ srv_trace = <<>>
    /\ srv_result = "none"

\* ------------------------------ workflow/sender.rs: Sender::send_to_device
\* Ports the OS hands out for a bind to port 0.
EphemeralPorts == {40000, 40001, U16Max}
\* Ports a peer may try.
Ports == EphemeralPorts \cup {p + 1 : p \in EphemeralPorts \ {U16Max}}

Listener(p, serves) == [port |-> p, serves |-> serves, tls |-> FALSE]

\* TransferServer::start (sender_server.rs:109-129): one plain-HTTP listener
\* that routes GET /download, on the port the OS chose.
ServerStart(p) ==
    [port |-> p, ret |-> p, listeners |-> {Listener(p, "download")}]

\* TransferServer::start_with_websocket (sender_server.rs:132-174): the HTTP
\* listener on p and a second, WebSocket, listener bound to p + 1. The sum is
\* computed in u16: for p = 65535 a debug build panics and a release build wraps
\* to 0, where the OS chooses a port q. The second bind fails when its port is in
\* use.
ServerStartWithWebsocket(p, build, q, inUse) ==
    LET http == {Listener(p, "download")}
    IN  IF p = U16Max /\ build = "debug"
        THEN [port |-> p, ret |-> 0, listeners |-> http]
        ELSE LET ws_port == IF p = U16Max THEN q ELSE (p + 1) % (U16Max + 1)
             IN  IF inUse \/ ws_port = p
                 THEN [port |-> p, ret |-> 0, listeners |-> http]
                 ELSE [port |-> p, ret |-> p,
                       listeners |-> http \cup {Listener(ws_port, "websocket")}]

SetServer(srv) ==
    /\ port' = srv.port
    /\ port_ret' = srv.ret
    /\ listeners' = srv.listeners

WfReturn(res) ==
    /\ wf_pc' = "returned"
    /\ wf_result' = res

\* sender.rs:85-109, the files are stat'ed
WfPrepare ==
    /\ wf_entry = "send_to_device"
    /\ wf_pc = "prepare"
    /\ \E ok \in BOOLEAN :
          IF ok THEN wf_pc' = "start_server" /\ UNCHANGED wf_result
          ELSE WfReturn("Err:metadata")
    /\ UNCHANGED <<wf_entry, wf_events, port, port_ret, listeners, active_hotspot,
                   hotspots, stop_calls, p2p_info, ble_done, subscribed, status_rx,
                   ctl, attempts, notWf>>

\* sender.rs:125-126, server.start()
WfStartServer ==
    /\ wf_entry = "send_to_device"
    /\ wf_pc = "start_server"
    /\ \E ok \in BOOLEAN, p \in EphemeralPorts :
          IF ok THEN /\ SetServer(ServerStart(p))
                     /\ wf_pc' = "create_group"
                     /\ UNCHANGED wf_result
          ELSE /\ WfReturn("Err:bind")
               /\ UNCHANGED <<port, port_ret, listeners>>
    /\ UNCHANGED <<wf_entry, wf_events, active_hotspot, hotspots, stop_calls,
                   p2p_info, ble_done, subscribed, status_rx, ctl, attempts,
                   notWf>>

\* WiFiP2pSender::create_group (p2p_sender.rs:126-152): the hotspot comes up through
\* NetworkManager or, failing that, through wpa_cli, and is recorded in
\* active_hotspot; the P2pInfo carries the port it was given.
CreateGroup(via, group_port) ==
    [active_hotspot |-> Some([name |-> "DIRECT-x", via |-> via]),
     hotspots |-> hotspots \cup {[name |-> "DIRECT-x", via |-> via]},
     p2p_info |-> Some([ssid |-> "DIRECT-x", port |-> group_port])]

\* sender.rs:131, create_group(port)
WfCreateGroup ==
    /\ wf_entry = "send_to_device"
    /\ wf_pc = "create_group"
    /\ \E outcome \in {"nm", "wpa", "fail"} :
          IF outcome = "fail"
          THEN /\ WfReturn("Err:create_group")
               /\ UNCHANGED <<active_hotspot, hotspots, p2p_info>>
          ELSE LET g == CreateGroup(outcome, port_ret)
               IN  /\ active_hotspot' = g.active_hotspot
                   /\ hotspots' = g.hotspots
                   /\ p2p_info' = g.p2p_info
                   /\ wf_pc' = "handshake"
                   /\ UNCHANGED wf_result
    /\ UNCHANGED <<wf_entry, wf_events, port, port_ret, listeners, stop_calls,
                   ble_done, subscribed, status_rx, ctl, attempts, notWf>>

\* sender.rs:138-146: BleClient::new, connect_and_handshake, then the subscription
WfHandshake ==
    /\ wf_entry = "send_to_device"
    /\ wf_pc = "handshake"
    /\ \E outcome \in {"ok", "no_adapter", "handshake_failed"} :
          IF outcome = "ok"
          THEN /\ ble_done' = TRUE
               /\ subscribed' = TRUE
               /\ wf_pc' = "wait"
               /\ UNCHANGED wf_result
          ELSE /\ WfReturn("Err:ble")
               /\ UNCHANGED <<ble_done, subscribed>>
    /\ UNCHANGED <<wf_entry, wf_events, port, port_ret, listeners, active_hotspot,
                   hotspots, stop_calls, p2p_info, status_rx, ctl, attempts,
                   notWf>>

\* What the wait can see next: a queued status, or the 300 s deadline. A control
\* session in progress is taken to end within the deadline.
WaitOutcomes ==
    (IF status_rx # <<>> THEN {"recv"} ELSE {})
    \cup (IF ctl # "open" THEN {"deadline"} ELSE {})

\* sender.rs:152-172, one status received
WaitResult(status) ==
    CASE status.s = "Completed" -> "Ok"
      [] status.s = "Rejected" -> "Err:rejected"
      [] status.s = "Failed" -> "Err:failed"
      [] OTHER -> "none"

\* sender.rs:149-175, the wait for a terminal status or the deadline
WfWait ==
    /\ wf_entry = "send_to_device"
    /\ wf_pc = "wait"
    /\ \E o \in WaitOutcomes :
          IF o = "deadline"
          THEN /\ wf_result' = "Err:timeout"
               /\ wf_pc' = "cleanup"
               /\ UNCHANGED status_rx
          ELSE /\ status_rx' = Tail(status_rx)
               /\ wf_result' = WaitResult(Head(status_rx))
               /\ wf_pc' = IF WaitResult(Head(status_rx)) = "none" THEN "wait" ELSE "cleanup"
    /\ UNCHANGED <<wf_entry, wf_events, port, port_ret, listeners, active_hotspot,
                   hotspots, stop_calls, p2p_info, ble_done, subscribed, ctl,
                   attempts, notWf>>

\* WiFiP2pSender::stop_group (p2p_sender.rs:234-257): the recorded hotspot is taken
\* and deleted, and every P2P group of the interface is removed.
StopGroup ==
    [active_hotspot |-> None,
     hotspots |-> {h \in hotspots : h.via # "wpa" /\ Some(h) # active_hotspot}]

\* sender.rs:177-187: stop_group, then the result is reported
WfCleanup ==
    /\ wf_entry = "send_to_device"
    /\ wf_pc = "cleanup"
    /\ active_hotspot' = StopGroup.active_hotspot
    /\ hotspots' = StopGroup.hotspots
    /\ stop_calls' = stop_calls + 1
    /\ wf_events' = IF wf_result = "Ok" THEN Append(wf_events, "on_complete") ELSE wf_events
    /\ wf_pc' = "returned"
    /\ UNCHANGED <<wf_entry, wf_result, port, port_ret, listeners, p2p_info, ble_done,
                   subscribed, status_rx, ctl, attempts, notWf>>

\* An embedding starts the server with start_with_websocket.
ApiStartWithWebsocket ==
    /\ wf_entry = "start_with_websocket"
    /\ wf_pc = "start_server"
    /\ \E p \in EphemeralPorts, build \in {"debug", "release"},
          q \in EphemeralPorts, inUse \in BOOLEAN :
          /\ q # p
          /\ LET srv == ServerStartWithWebsocket(p, build, q, inUse)
             IN  /\ SetServer(srv)
                 /\ wf_pc' = "returned"
                 /\ wf_result' = IF srv.ret = 0 THEN "Err:bind" ELSE "Ok"
    /\ UNCHANGED <<wf_entry, wf_events, active_hotspot, hotspots, stop_calls,
                   p2p_info, ble_done, subscribed, status_rx, ctl, attempts,
                   notWf>>

\* subscribe_status_async (sender_server.rs:103-106), called by an embedding
ApiSubscribe ==
    /\ wf_entry = "start_with_websocket"
    /\ port_ret # 0
    /\ ~subscribed
    /\ subscribed' = TRUE
    /\ UNCHANGED <<wf_entry, wf_pc, wf_result, wf_events, port, port_ret, listeners,
                   active_hotspot, hotspots, stop_calls, p2p_info, ble_done,
                   status_rx, ctl, attempts, notWf>>

\* Whether a control connection to port pt gets through: a WebSocket listener
\* accepts there and both ends agree on TLS.
ControlAccepted(pt, tls) ==
    \E l \in listeners : l.port = pt /\ l.serves = "websocket" /\ l.tls = tls

\* The connection ReceiverClient::start opens (receiver_client.rs:63-80): wss on the
\* port of the P2pInfo it was handed.
ReceiverAttempt(info) == [port |-> info.port, tls |-> TRUE]

\* A peer opens a control connection: ReceiverClient does, to the P2pInfo's port over
\* TLS, once it holds the P2pInfo; any other peer may try any port.
PeerOpenControl ==
    /\ listeners # {}
    /\ ctl = "none"
    /\ Len(attempts) < MaxAttempts
    /\ \E pt \in Ports, tls \in BOOLEAN :
          /\ attempts' = Append(attempts, [port |-> pt, tls |-> tls,
                                           ok |-> ControlAccepted(pt, tls)])
          /\ ctl' = IF ControlAccepted(pt, tls) THEN "open" ELSE "none"
    /\ UNCHANGED <<wf_entry, wf_pc, wf_result, wf_events, port, port_ret, listeners,
                   active_hotspot, hotspots, stop_calls, p2p_info, ble_done,
                   subscribed, status_rx, notWf>>

\* The peer sends a status action on its control connection, and
\* handle_websocket_connection reports it to the status receivers there are.
PeerStatus ==
    /\ ctl = "open"
    /\ \E payload \in StatusJsons :
          LET s == SrvOnStatus(payload)
              sent == [i \in 1..Len(s.events) |-> s.events[i].status]
          IN  /\ status_rx' = IF subscribed THEN status_rx \o sent ELSE status_rx
              /\ ctl' = IF s.pc = "returned" THEN "closed" ELSE "open"
    /\ UNCHANGED <<wf_entry, wf_pc, wf_result, wf_events, port, port_ret, listeners,
                   active_hotspot, hotspots, stop_calls, p2p_info, ble_done,
                   subscribed, attempts, notWf>>

WfInit ==
    /\ wf_entry \in {"send_to_device", "start_with_websocket"}
    /\ wf_pc = IF wf_entry = "send_to_device" THEN "prepare" ELSE "start_server"
    /\ wf_result = "none"
    /\ wf_events = <<>>
    /\ port = 0
    /\ port_ret = 0
    /\ listeners = {}
    /\ active_hotspot = None
    /\ hotspots = {}
    /\ stop_calls = 0
    /\ p2p_info = None
    /\ ble_done = FALSE
    /\ subscribed = FALSE
    /\ status_rx = <<>>
    /\ ctl = "none"
    /\ attempts = <<>>

\* Neither send_to_device nor a transfer server runs.
WfIdle ==
    /\ wf_entry = "idle"
    /\ wf_pc = "idle"
    /\ wf_result = "none"
    /\ wf_events = <<>>
    /\ port = 0
    /\ port_ret = 0
    /\ listeners = {}
    /\ active_hotspot = None
    /\ hotspots = {}
    /\ stop_calls = 0
    /\ p2p_info = None
    /\ ble_done = FALSE
    /\ subscribed = FALSE
    /\ status_rx = <<>>
    /\ ctl = "none"
    /\ attempts = <<>>

\* -------------------- wifi/p2p_receiver.rs: WiFiP2pReceiver, as the host sees it
MainInterface == "wlan0"
P2pGroupInterface == "p2p-wlan0-0"
VirtualInterface == "wlan0_p2p"

\* The receiver's fields and the host state they refer to.
Wifi(active, virtual, net, associated, existing) ==
    [active_interface |-> active, created_virtual_interface |-> virtual,
     network_id |-> net, assoc |-> associated, ifaces |-> existing]

\* WiFiP2pReceiver::new (p2p_receiver.rs:60-70) on a host with its main interface
WifiNew == Wifi(None, FALSE, None, {}, {MainInterface})

\* The result of one connect helper: the state it leaves and whether it got an IP.
Conn(w, ok) == [w |-> w, ok |-> ok]

WpaOutcomes == {"add_failed", "timeout", "no_ip", "ok"}

\* connect_wpa (p2p_receiver.rs:360-454): add_network, whose id is recorded, then the
\* wait for wpa_state=COMPLETED and the address of the interface.
ConnectWpa(w, interface, o) ==
    IF o = "add_failed" THEN Conn(w, FALSE)
    ELSE LET w1 == [w EXCEPT !.network_id = Some("0")]
         IN  IF o = "timeout" THEN Conn(w1, FALSE)
             ELSE Conn([w1 EXCEPT !.assoc = @ \cup {interface}], o = "ok")

P2pOutcomes == {"no_group"} \cup WpaOutcomes

\* connect_p2p_interface (p2p_receiver.rs:170-198)
ConnectP2pInterface(w, o) ==
    IF o = "no_group" THEN Conn(w, FALSE)
    ELSE ConnectWpa([w EXCEPT !.active_interface = Some(P2pGroupInterface),
                              !.ifaces = @ \cup {P2pGroupInterface}],
                    P2pGroupInterface, o)

VirtualOutcomes == {"create_failed", "wpa_failed", "timeout", "no_ip", "ok"}

\* connect_virtual_interface (p2p_receiver.rs:201-311): an old interface of that
\* name is deleted, the interface is created and recorded, wpa_supplicant is started
\* on it.
ConnectVirtualInterface(w, o) ==
    LET w0 == [w EXCEPT !.ifaces = @ \ {VirtualInterface},
                        !.assoc = @ \ {VirtualInterface}]
    IN  IF o = "create_failed" THEN Conn(w0, FALSE)
        ELSE LET w1 == [w0 EXCEPT !.created_virtual_interface = TRUE,
                                  !.active_interface = Some(VirtualInterface),
                                  !.ifaces = @ \cup {VirtualInterface}]
             IN  IF o \in {"wpa_failed", "timeout"} THEN Conn(w1, FALSE)
                 ELSE Conn([w1 EXCEPT !.assoc = @ \cup {VirtualInterface}], o = "ok")

NmcliOutcomes == {"failed", "no_ip", "ok"}

\* connect_nmcli (p2p_receiver.rs:457-514)
ConnectNmcli(w, interface, o) ==
    IF o = "failed" THEN Conn(w, FALSE)
    ELSE Conn([w EXCEPT !.assoc = @ \cup {interface}], o = "ok")

\* The fallback of connect (p2p_receiver.rs:112-125): the main interface, by wpa_cli
\* and then by nmcli.
ConnectMain(w, wpa, nm) ==
    LET w1 == [w EXCEPT !.active_interface = Some(MainInterface)]
        c1 == ConnectWpa(w1, MainInterface, wpa)
    IN  IF c1.ok THEN c1 ELSE ConnectNmcli(c1.w, MainInterface, nm)

MultiOutcomes == {"yes", "no", "error"}

\* WiFiP2pReceiver::connect (p2p_receiver.rs:84-126)
WifiConnect(w, preserve_wifi, multi, p2p, virt, wpa, nm) ==
    IF preserve_wifi /\ multi = "error" THEN Conn(w, FALSE)
    ELSE IF preserve_wifi /\ multi = "yes"
    THEN LET c1 == ConnectP2pInterface(w, p2p)
             c2 == ConnectVirtualInterface(c1.w, virt)
         IN  IF c1.ok THEN c1
             ELSE IF c2.ok THEN c2
             ELSE ConnectMain(c2.w, wpa, nm)
    ELSE ConnectMain(w, wpa, nm)

\* Removing an interface ends its association.
RemoveInterface(w, iface) ==
    [w EXCEPT !.ifaces = @ \ {iface}, !.assoc = @ \ {iface}]

\* WiFiP2pReceiver::disconnect (p2p_receiver.rs:517-567)
WifiDisconnect(w) ==
    LET w1 == IF IsSome(w.active_interface)
              THEN [w EXCEPT !.assoc = @ \ {Unwrap(w.active_interface)}]
              ELSE w
        w2 == IF w.created_virtual_interface /\ IsSome(w.active_interface)
              THEN RemoveInterface(w1, Unwrap(w.active_interface))
              ELSE w1
    IN  [w2 EXCEPT !.active_interface = None,
                   !.created_virtual_interface = FALSE,
                   !.network_id = None]

\* Drop for WiFiP2pReceiver, as it stands (p2p_receiver.rs:621-635): only a virtual
\* interface is removed.
WifiDrop(w) ==
    IF w.created_virtual_interface /\ IsSome(w.active_interface)
    THEN RemoveInterface(w, Unwrap(w.active_interface))
    ELSE w

\* --------------------------------- workflow/receiver.rs: Receiver::start
WifiNow == Wifi(active_interface, created_virtual_interface, network_id, assoc, ifaces)

SetWifi(w) ==
    /\ active_interface' = w.active_interface
    /\ created_virtual_interface' = w.created_virtual_interface
    /\ network_id' = w.network_id
    /\ assoc' = w.assoc
    /\ ifaces' = w.ifaces

\* What ReceiverClient::start returns (receiver_client.rs:58-198).
ClientResults ==
    {"Ok", "Err:connect", "Err:WebSocket", "Err:Protocol error",
     "Err:User rejected transfer", "Err:No task ID received", "Err:send",
     "Err:download", "Err:extract"}

\* receiver.rs:94-104, GattServer::new and start
RwStartGatt ==
    /\ rw_pc = "start_gatt"
    /\ \E ok \in BOOLEAN :
          /\ rw_pc' = IF ok THEN "wait_p2p" ELSE "returned"
          /\ rw_result' = IF ok THEN "none" ELSE "Err:gatt"
    /\ UNCHANGED <<rw_events, rw_connected_on, active_interface,
                   created_virtual_interface, network_id, assoc, ifaces,
                   disconnect_calls, notRw>>

\* receiver.rs:112-129: the P2pReceiveEvent arrives and the Wi-Fi receiver is made
RwRecvP2p ==
    /\ rw_pc = "wait_p2p"
    /\ rw_pc' = "wifi_connect"
    /\ SetWifi(WifiNew)
    /\ UNCHANGED <<rw_result, rw_events, rw_connected_on, disconnect_calls, notRw>>

\* receiver.rs:130, connect; an error returns and drops the Wi-Fi receiver
RwWifiConnect ==
    /\ rw_pc = "wifi_connect"
    /\ \E multi \in MultiOutcomes, p2p \in P2pOutcomes, virt \in VirtualOutcomes,
          wpa \in WpaOutcomes, nm \in NmcliOutcomes :
          LET c == WifiConnect(WifiNow, TRUE, multi, p2p, virt, wpa, nm)
          IN  IF c.ok
              THEN /\ SetWifi(c.w)
                   /\ rw_connected_on' = c.w.active_interface
                   /\ rw_pc' = "client"
                   /\ UNCHANGED rw_result
              ELSE /\ SetWifi(WifiDrop(c.w))
                   /\ rw_pc' = "returned"
                   /\ rw_result' = "Err:wifi"
                   /\ UNCHANGED rw_connected_on
    /\ UNCHANGED <<rw_events, disconnect_calls, notRw>>

\* ReceiverCallbackAdapter::on_complete (receiver.rs:216-218): the call
\* ReceiverClient::start makes on success (receiver_client.rs:194) goes on to
\* the progress sink.
AdapterOnComplete(events) == Append(events, "on_complete")

\* receiver.rs:154-160, client.start; an error returns and drops the Wi-Fi receiver
RwClient ==
    /\ rw_pc = "client"
    /\ \E res \in ClientResults :
          IF res = "Ok"
          THEN /\ rw_pc' = "disconnect"
               /\ rw_events' = AdapterOnComplete(rw_events)
               /\ UNCHANGED <<rw_result, active_interface, created_virtual_interface,
                              network_id, assoc, ifaces>>
          ELSE /\ SetWifi(WifiDrop(WifiNow))
               /\ rw_pc' = "returned"
               /\ rw_result' = res
               /\ UNCHANGED rw_events
    /\ UNCHANGED <<rw_connected_on, disconnect_calls, notRw>>

\* receiver.rs:163-167: disconnect, on_complete, Ok; the receiver is dropped at the end
RwDisconnect ==
    /\ rw_pc = "disconnect"
    /\ SetWifi(WifiDrop(WifiDisconnect(WifiNow)))
    /\ disconnect_calls' = disconnect_calls + 1
    /\ rw_events' = Append(rw_events, "on_complete")
    /\ rw_pc' = "returned"
    /\ rw_result' = "Ok"
    /\ UNCHANGED <<rw_connected_on, notRw>>

RwInit ==
    /\ rw_pc = "start_gatt"
    /\ rw_result = "none"
    /\ rw_events = <<>>
    /\ rw_connected_on = None
    /\ active_interface = None
    /\ created_virtual_interface = FALSE
    /\ network_id = None
    /\ assoc = {}
    /\ ifaces = {MainInterface}
    /\ disconnect_calls = 0

\* Receiver::start does not run.
RwIdle ==
    /\ rw_pc = "idle"
    /\ rw_result = "none"
    /\ rw_events = <<>>
    /\ rw_connected_on = None
    /\ active_interface = None
    /\ created_virtual_interface = FALSE
    /\ network_id = None
    /\ assoc = {}
    /\ ifaces = {MainInterface}
    /\ disconnect_calls = 0

\* ------------------------------------------- crypto/ble_security.rs, scaled down
\* Bytes are two bits wide. A string is a sequence of the bytes 0..2, its UTF-8
\* encoding; byte 3 occurs in no UTF-8 string. Of the characters, 0 and 1 make up
\* the Base64 alphabet and 2 is outside it.
Bytes == 0..3
Chars == 0..2
Base64Chars == 0..1

SeqsOver(S, n) == UNION {[1..k -> S] : k \in 0..n}

Strs == SeqsOver(Chars, MaxStrLen)

\* Bitwise exclusive or of two bytes.
Xor(a, b) == (((a % 2) + (b % 2)) % 2) + 2 * (((a \div 2) + (b \div 2)) % 2)

\* general_purpose::STANDARD.encode: every byte becomes two Base64 characters.
Base64Encode(bytes) ==
    [i \in 1..(2 * Len(bytes)) |->
        IF (i % 2) = 1 THEN (bytes[(i + 1) \div 2]) \div 2 ELSE (bytes[i \div 2]) % 2]

\* general_purpose::STANDARD.decode: None for a string that is not Base64.
Base64Decode(s) ==
    IF (Len(s) % 2) = 1 \/ \E i \in 1..Len(s) : s[i] \notin Base64Chars
    THEN None
    ELSE Some([i \in 1..(Len(s) \div 2) |-> (2 * s[2 * i - 1]) + s[2 * i]])

\* String::from_utf8: None for bytes that are not UTF-8.
FromUtf8(bytes) ==
    IF \E i \in 1..Len(bytes) : bytes[i] \notin Chars THEN None ELSE Some(bytes)

\* AES_IV (ble_security.rs:28), the counter block every cipher starts from.
AesIv == 1

\* Byte i of the keystream Aes256Ctr::new(key, iv) produces.
Keystream(key, iv, i) == (key * (iv + i)) % 4

\* cipher.apply_keystream(&mut buffer) on a cipher made from key and iv
ApplyKeystream(key, iv, buffer) ==
    [i \in 1..Len(buffer) |-> Xor(buffer[i], Keystream(key, iv, i))]

\* SessionCipher::encrypt (ble_security.rs:199-212)
Encrypt(key, data) == Base64Encode(ApplyKeystream(key, AesIv, data))

\* A decrypt whose cipher starts one block later than AES_IV.
DecryptShiftedIv(key, encoded_data) ==
    LET buffer == Base64Decode(encoded_data)
    IN  IF buffer = None THEN None
        ELSE FromUtf8(ApplyKeystream(key, AesIv + 1, Unwrap(buffer)))

\* SessionCipher::decrypt (ble_security.rs:228-241)
Decrypt(key, encoded_data) ==
    LET buffer == Base64Decode(encoded_data)
    IN  IF buffer = None THEN None
        ELSE FromUtf8(ApplyKeystream(key, AesIv, Unwrap(buffer)))

\* A small prime field stands for P-256: private scalars, public points 2^sk.
DhPrime == 11
DhGenerator == 2
Scalars == 1..3
SessionKeys == 1..(DhPrime - 1)

RECURSIVE Pow(_, _, _)
Pow(b, e, m) == IF e = 0 THEN 1 % m ELSE (b * Pow(b, e - 1, m)) % m

Call(op, arg, res) == [op |-> op, arg |-> arg, res |-> res]

\* cipher.encrypt(&msg)
CrEncrypt ==
    /\ Len(cr_calls) < MaxCalls
    /\ cr_calls' = Append(cr_calls, Call("encrypt", cr_msg, Some(Encrypt(cr_key, cr_msg))))
    /\ UNCHANGED <<cr_key, cr_msg, notCr>>

\* cipher.decrypt(&text), on a ciphertext an earlier call returned or on the string
\* the caller holds
CrDecrypt ==
    /\ Len(cr_calls) < MaxCalls
    /\ \E text \in {cr_msg} \cup {Unwrap(cr_calls[i].res) :
                                   i \in {j \in 1..Len(cr_calls) : cr_calls[j].op = "encrypt"}} :
          cr_calls' = Append(cr_calls, Call("decrypt", text, Decrypt(cr_key, text)))
    /\ UNCHANGED <<cr_key, cr_msg, notCr>>

CrInit ==
    /\ cr_key \in SessionKeys
    /\ cr_msg \in Strs
    /\ cr_calls = <<>>

\* No cipher is in use.
CrIdle ==
    /\ cr_key = 0
    /\ cr_msg = <<>>
    /\ cr_calls = <<>>

\* ------------------------------------------------ key pairs and key agreement
\* A public key as it travels: the encoding and the point it encodes.
PublicKeyB64(fmt, point) == [fmt |-> fmt, point |-> point]

\* BleSecurity::new / get_public_key (ble_security.rs:69-96): the SPKI encoding of
\* the public point of the secret.
GetPublicKey(scalar) == PublicKeyB64("spki", Pow(DhGenerator, scalar, DhPrime))

\* parse_public_key after the Base64 decode (ble_security.rs:114, 142-165): SPKI and
\* SEC1 encodings of a point of the group are accepted.
ParsePublicKey(key) ==
    IF key.fmt \in {"spki", "sec1"} /\ key.point \in 1..(DhPrime - 1)
    THEN Some(key.point)
    ELSE None

\* The key taken from the peer's point alone, with no part of the own secret.
DeriveSessionKeyPeerPoint(scalar, peer_pub_key_b64) ==
    LET peer_public == ParsePublicKey(peer_pub_key_b64)
    IN  IF peer_public = None THEN None
        ELSE Some(Unwrap(peer_public))

\* BleSecurity::derive_session_key (ble_security.rs:113-139): the raw shared secret
DeriveSessionKey(scalar, peer_pub_key_b64) ==
    LET peer_public == ParsePublicKey(peer_pub_key_b64)
    IN  IF peer_public = None THEN None
        ELSE Some(Pow(Unwrap(peer_public), scalar, DhPrime))

\* A key pair in use: which one it is and its secret.
KeyPair(inst, scalar) == [inst |-> inst, scalar |-> scalar]

\* BleSecurityPersistent, the context Receiver::new creates once and the GATT server
\* shares (receiver.rs:79, 97-99; server.rs:202-212): derive_session_key is called
\* on a shared reference and leaves the key pair in place.
PersistentDeriveSessionKey(sec, peer_pub_key_b64) ==
    DeriveSessionKey(sec.scalar, peer_pub_key_b64)

\* --------------------------------------------- wifi/mod.rs, ble/mod.rs: payloads
P2pInfo(id, ssid, psk, mac, p, key, cat_share) ==
    [id |-> id, ssid |-> ssid, psk |-> psk, mac |-> mac, port |-> p, key |-> key,
     cat_share |-> cat_share]

\* P2pInfo::new (wifi/mod.rs:62-72)
P2pInfoNew(ssid, psk, mac, p) == P2pInfo(None, ssid, psk, mac, p, None, Some(1))

\* P2pInfo::with_encryption (wifi/mod.rs:84-101)
WithEncryption(id, ssid_encrypted, psk_encrypted, mac_encrypted, p, sender_public_key) ==
    P2pInfo(Some(id), ssid_encrypted, psk_encrypted, mac_encrypted, p,
            Some(sender_public_key), Some(1))

\* A JSON object with the key added when the Option holds a value
\* (skip_serializing_if = "Option::is_none").
JsonPut(obj, key, opt) ==
    IF opt = None THEN obj
    ELSE [x \in DOMAIN obj \cup {key} |-> IF x = key THEN Unwrap(opt) ELSE obj[x]]

JsonBlob(obj) == [kind |-> "json", obj |-> obj]
NotJson == [kind |-> "garbage"]

\* serde_json::to_vec(&P2pInfo) (wifi/mod.rs:45-58)
P2pInfoToJson(info) ==
    JsonBlob(JsonPut(JsonPut(JsonPut(
        [ssid |-> info.ssid, psk |-> info.psk, mac |-> info.mac, port |-> info.port],
        "id", info.id), "key", info.key), "catShare", info.cat_share))

\* serde_json::from_str::<P2pInfo> (wifi/mod.rs:45-58): ssid, psk, mac and port are
\* required, a missing Option is None.
P2pInfoFromJson(data) ==
    IF data.kind # "json" \/ ~({"ssid", "psk", "mac", "port"} \subseteq DOMAIN data.obj)
    THEN None
    ELSE Some(P2pInfo(JsonGet(data.obj, "id"), data.obj.ssid, data.obj.psk,
                      data.obj.mac, data.obj.port, JsonGet(data.obj, "key"),
                      JsonGet(data.obj, "catShare")))

DeviceInfo(state, key, mac, cat_share) ==
    [state |-> state, key |-> key, mac |-> mac, cat_share |-> cat_share]

\* DeviceInfo::new (ble/mod.rs:86-93)
DeviceInfoNew(public_key, mac) == DeviceInfo(0, Some(public_key), mac, Some(1))

\* serde_json::to_vec(&DeviceInfo) (ble/mod.rs:68-77)
DeviceInfoToJson(info) ==
    JsonBlob(JsonPut(JsonPut([state |-> info.state, mac |-> info.mac],
                             "key", info.key), "catShare", info.cat_share))

\* serde_json::from_slice::<DeviceInfo> (ble/mod.rs:68-77)
DeviceInfoFromJson(data) ==
    IF data.kind # "json" \/ ~({"state", "mac"} \subseteq DOMAIN data.obj)
    THEN None
    ELSE Some(DeviceInfo(data.obj.state, JsonGet(data.obj, "key"), data.obj.mac,
                         JsonGet(data.obj, "catShare")))

\* ---------------------------------------------- ble/server.rs: the GATT server
\* mpsc::channel(16) (server.rs:99)
P2pChannelCapacity == 16

P2pReceiveEvent(info, sender_public_key) ==
    [p2p_info |-> info, sender_public_key |-> sender_public_key]

\* cipher.decrypt(&field).unwrap_or(field) (server.rs:380-382)
DecryptOrKeep(key, field) == UnwrapOr(Decrypt(key, field), field)

\* What the handler did with one write: the result, the event, whether the
\* server's key pair took part in a key agreement, and for each field whether
\* decrypt returned Ok.
Handled(ok, event, agreed, decrypted) ==
    [ok |-> ok, event |-> event, agreed |-> agreed, decrypted |-> decrypted]

Fields == {"ssid", "psk", "mac"}

\* process_p2p_write (server.rs:366-404)
ProcessP2pWrite(data, security) ==
    LET parsed == P2pInfoFromJson(data)
    IN  IF parsed = None THEN Handled(FALSE, None, FALSE, None)
        ELSE
        LET info == Unwrap(parsed)
            sender_public_key == info.key
        IN  IF IsSome(sender_public_key) /\ IsSome(security)
            THEN LET cipher == PersistentDeriveSessionKey(Unwrap(security),
                                                          Unwrap(sender_public_key))
                 IN  IF cipher = None
                     THEN Handled(TRUE, Some(P2pReceiveEvent(info, sender_public_key)),
                                  FALSE, None)
                     ELSE LET k == Unwrap(cipher)
                              out == [info EXCEPT
                                        !.ssid = DecryptOrKeep(k, info.ssid),
                                        !.psk = DecryptOrKeep(k, info.psk),
                                        !.mac = DecryptOrKeep(k, info.mac),
                                        !.key = None]
                          IN  Handled(TRUE, Some(P2pReceiveEvent(out, sender_public_key)),
                                      TRUE,
                                      Some([f \in Fields |-> Decrypt(k, info[f]) # None]))
            ELSE Handled(TRUE, Some(P2pReceiveEvent(info, sender_public_key)),
                         FALSE, None)

\* One agreement of the log: the key pair and who used it.
Agreement(inst, who) == [inst |-> inst, who |-> who]

\* The handler with try_send in place of send: at a full channel the event is
\* dropped.
GattWriteTrySend(data, src) ==
    LET h == ProcessP2pWrite(data, gs_security)
    IN  /\ gs_writes' = Append(gs_writes, [src |-> src, data |-> data, handled |-> h])
        /\ agreements' = IF h.agreed
                         THEN Append(agreements, Agreement(Unwrap(gs_security).inst, "server"))
                         ELSE agreements
        /\ IF h.ok /\ Len(p2p_chan) < P2pChannelCapacity
           THEN p2p_chan' = Append(p2p_chan, Unwrap(h.event)) /\ UNCHANGED p2p_waiting
           ELSE UNCHANGED <<p2p_chan, p2p_waiting>>

\* The P2P_CHAR write handler (server.rs:208-224): the write is processed and its
\* event sent on the channel; with the channel full the handler waits its turn.
GattWrite(data, src) ==
    LET h == ProcessP2pWrite(data, gs_security)
    IN  /\ gs_writes' = Append(gs_writes, [src |-> src, data |-> data, handled |-> h])
        /\ agreements' = IF h.agreed
                         THEN Append(agreements, Agreement(Unwrap(gs_security).inst, "server"))
                         ELSE agreements
        /\ IF ~h.ok THEN UNCHANGED <<p2p_chan, p2p_waiting>>
           ELSE IF Len(p2p_chan) < P2pChannelCapacity /\ p2p_waiting = <<>>
           THEN p2p_chan' = Append(p2p_chan, Unwrap(h.event)) /\ UNCHANGED p2p_waiting
           ELSE p2p_waiting' = Append(p2p_waiting, Unwrap(h.event)) /\ UNCHANGED p2p_chan

\* p2p_rx.recv() (receiver.rs:112-115): the oldest event is taken, and the handler
\* that waited longest gets the freed slot.
P2pRecv ==
    /\ p2p_chan # <<>>
    /\ p2p_received' = Append(p2p_received, Head(p2p_chan))
    /\ IF p2p_waiting = <<>>
       THEN p2p_chan' = Tail(p2p_chan) /\ UNCHANGED p2p_waiting
       ELSE /\ p2p_chan' = Append(Tail(p2p_chan), Head(p2p_waiting))
            /\ p2p_waiting' = Tail(p2p_waiting)
    /\ UNCHANGED <<bc_pc, bc_result, bc_link, bc_input, bc_device_info, bc_p2p_data,
                   bc_ops, bc_calls, bc_write, key_count, agreements, gs_security,
                   gs_status, gs_writes, peer_writes, notBle>>

\* ----------------------------------------- ble/client.rs: connect_and_handshake
Running == [tag |-> "none"]
Ok(device_info) == [tag |-> "Ok", value |-> device_info]
Err(e) == [tag |-> "Err", err |-> e]

\* The sender id connect_and_handshake is called with.
SenderId == "a1b2"

\* The strings the caller's P2pInfo is made of.
SsidSamples == {<<>>, <<1>>, <<2, 0>>} \cup {[i \in 1..MaxStrLen |-> (i % 3)]}
PskSamples == {<<0>>, <<1, 2>>}
MacSamples == {<<2, 2, 0>>}
PortSamples == {8443}

chanVars == <<p2p_chan, p2p_waiting, p2p_received>>
gsConfig == <<gs_security, gs_status>>
gsLog == <<gs_writes, agreements, peer_writes>>

\* The call returns.
BcReturn(res) ==
    /\ bc_pc' = "returned"
    /\ bc_result' = res

\* The GATT operation is recorded.
BcOp(op) == bc_ops' = Append(bc_ops, op)

\* connect_and_handshake is called (client.rs:62-67).
BcCall ==
    /\ bc_pc \in {"idle", "returned"}
    /\ bc_calls < MaxHandshakes
    /\ bc_calls' = bc_calls + 1
    /\ bc_pc' = "find"
    /\ bc_result' = Running
    /\ bc_device_info' = None
    /\ bc_p2p_data' = None
    /\ bc_ops' = <<>>
    /\ bc_write' = 0
    /\ UNCHANGED <<bc_link, bc_input, key_count, gsConfig, gsLog, chanVars, notBle>>

\* find_device and peripheral.connect (client.rs:69-73)
BcConnect ==
    /\ bc_pc = "find"
    /\ \E r \in {"not_found", "connect_err", "ok"} :
          CASE r = "not_found" ->
                  /\ BcReturn(Err("DeviceNotFound"))
                  /\ UNCHANGED <<bc_link, bc_ops>>
            [] r = "connect_err" ->
                  /\ BcReturn(Err("Btleplug"))
                  /\ UNCHANGED <<bc_link, bc_ops>>
            [] r = "ok" ->
                  /\ bc_link' = TRUE
                  /\ BcOp("connect")
                  /\ bc_pc' = "discover"
                  /\ UNCHANGED bc_result
    /\ UNCHANGED <<bc_input, bc_device_info, bc_p2p_data, bc_calls, bc_write,
                   key_count, gsConfig, gsLog, chanVars, notBle>>

\* peripheral.discover_services (client.rs:83)
BcDiscover ==
    /\ bc_pc = "discover"
    /\ \E ok \in BOOLEAN :
          IF ok
          THEN bc_pc' = "status" /\ BcOp("discover") /\ UNCHANGED bc_result
          ELSE BcReturn(Err("Btleplug")) /\ UNCHANGED bc_ops
    /\ UNCHANGED <<bc_link, bc_input, bc_device_info, bc_p2p_data, bc_calls, bc_write,
                   key_count, gsConfig, gsLog, chanVars, notBle>>

\* The STATUS characteristic is found, read and parsed (client.rs:86-89).
BcReadStatus ==
    /\ bc_pc = "status"
    /\ \E r \in {"no_char", "read_err", "ok"} :
          CASE r = "no_char" ->
                  /\ BcReturn(Err("CharacteristicNotFound"))
                  /\ UNCHANGED <<bc_ops, bc_device_info>>
            [] r = "read_err" ->
                  /\ BcReturn(Err("Btleplug"))
                  /\ UNCHANGED <<bc_ops, bc_device_info>>
            [] r = "ok" ->
                  LET device_info == DeviceInfoFromJson(gs_status)
                  IN  /\ BcOp("read_status")
                      /\ IF device_info = None
                         THEN /\ BcReturn(Err("Invalid DeviceInfo"))
                              /\ UNCHANGED bc_device_info
                         ELSE /\ bc_device_info' = device_info
                              /\ bc_pc' = "package"
                              /\ UNCHANGED bc_result
    /\ UNCHANGED <<bc_link, bc_input, bc_p2p_data, bc_calls, bc_write,
                   key_count, gsConfig, gsLog, chanVars, notBle>>

\* The package with the psk left as it was given.
EncryptedP2pDataPlainPsk(info, sender_id, cipher, sender_public_key) ==
    P2pInfoToJson(WithEncryption(sender_id,
                                 Encrypt(cipher, info.ssid),
                                 info.psk,
                                 Encrypt(cipher, info.mac),
                                 info.port,
                                 sender_public_key))

\* The bytes to write when the peer published a key (client.rs:94-121): the fields
\* encrypted under the agreed key, the sender's id and its public key.
EncryptedP2pData(info, sender_id, cipher, sender_public_key) ==
    P2pInfoToJson(WithEncryption(sender_id,
                                 Encrypt(cipher, info.ssid),
                                 Encrypt(cipher, info.psk),
                                 Encrypt(cipher, info.mac),
                                 info.port,
                                 sender_public_key))

\* The P2P data is built (client.rs:94-125): with a key in the DeviceInfo a fresh
\* key pair is created and the session key derived.
BcPackage ==
    /\ bc_pc = "package"
    /\ LET device_info == Unwrap(bc_device_info)
       IN  IF IsSome(device_info.key)
           THEN \E created \in BOOLEAN, scalar \in Scalars :
                  IF ~created
                  THEN /\ BcReturn(Err("Failed to init security"))
                       /\ UNCHANGED <<key_count, agreements, bc_p2p_data>>
                  ELSE LET security == KeyPair(key_count + 1, scalar)
                           cipher == DeriveSessionKey(scalar, Unwrap(device_info.key))
                       IN  /\ key_count' = key_count + 1
                           /\ IF cipher = None
                              THEN /\ BcReturn(Err("Key exchange failed"))
                                   /\ UNCHANGED <<agreements, bc_p2p_data>>
                              ELSE /\ agreements' = Append(agreements,
                                                    Agreement(security.inst, "client"))
                                   /\ bc_p2p_data' = Some(EncryptedP2pData(bc_input,
                                                    SenderId, Unwrap(cipher),
                                                    GetPublicKey(scalar)))
                                   /\ bc_pc' = "write"
                                   /\ UNCHANGED bc_result
           ELSE /\ bc_p2p_data' = Some(P2pInfoToJson(bc_input))
                /\ bc_pc' = "write"
                /\ UNCHANGED <<bc_result, key_count, agreements>>
    /\ UNCHANGED <<bc_link, bc_input, bc_device_info, bc_ops, bc_calls, bc_write,
                   gsConfig, gs_writes, peer_writes, chanVars, notBle>>

\* The P2P characteristic is found and written with response (client.rs:128-132);
\* the write runs the server's handler, whose failure fails the write.
BcWrite ==
    /\ bc_pc = "write"
    /\ \E r \in {"no_char", "write_err", "ok"} :
          CASE r = "no_char" ->
                  /\ BcReturn(Err("CharacteristicNotFound"))
                  /\ UNCHANGED <<bc_ops, bc_write, gs_writes, agreements, chanVars>>
            [] r = "write_err" ->
                  /\ BcReturn(Err("Btleplug"))
                  /\ UNCHANGED <<bc_ops, bc_write, gs_writes, agreements, chanVars>>
            [] r = "ok" ->
                  /\ GattWrite(Unwrap(bc_p2p_data), "client")
                  /\ BcOp("write_p2p")
                  /\ bc_write' = Len(gs_writes) + 1
                  /\ UNCHANGED p2p_received
                  /\ IF ProcessP2pWrite(Unwrap(bc_p2p_data), gs_security).ok
                     THEN bc_pc' = "disconnect" /\ UNCHANGED bc_result
                     ELSE BcReturn(Err("Btleplug"))
    /\ UNCHANGED <<bc_link, bc_input, bc_device_info, bc_p2p_data, bc_calls,
                   key_count, gsConfig, peer_writes, notBle>>

\* peripheral.disconnect and the return of the DeviceInfo (client.rs:135-137)
BcDisconnect ==
    /\ bc_pc = "disconnect"
    /\ BcOp("disconnect")
    /\ \E ok \in BOOLEAN :
          IF ok
          THEN bc_link' = FALSE /\ BcReturn(Ok(Unwrap(bc_device_info)))
          ELSE UNCHANGED bc_link /\ BcReturn(Err("Btleplug"))
    /\ UNCHANGED <<bc_input, bc_device_info, bc_p2p_data, bc_calls, bc_write,
                   key_count, gsConfig, gsLog, chanVars, notBle>>

\* What another central may write to P2P_CHAR: a plain P2pInfo, told from the
\* others by its port, or bytes that are no P2pInfo, a P2pInfo with a key and
\* fields that are no ciphertexts, one with a key that is no public key.
PlainBlob(n) == P2pInfoToJson(P2pInfoNew(<<1>>, <<0>>, <<2>>, n))

OddBlobs ==
    { NotJson,
      P2pInfoToJson(WithEncryption("peer", <<2>>, <<0, 1>>, <<0, 0>>, 1, GetPublicKey(2))),
      P2pInfoToJson(WithEncryption("peer", <<0, 0>>, <<0, 1>>, <<0, 0>>, 1,
                                   PublicKeyB64("raw", 0))) }

\* Another central writes P2P_CHAR (server.rs:203-228).
GsPeerWrite ==
    /\ Len(gs_writes) < MaxPeerWrites
    /\ \/ /\ GattWrite(PlainBlob(Len(gs_writes) + 1), "peer")
          /\ UNCHANGED peer_writes
       \/ /\ peer_writes < MaxOddWrites
          /\ peer_writes' = peer_writes + 1
          /\ \E data \in OddBlobs : GattWrite(data, "peer")
    /\ UNCHANGED <<bc_pc, bc_result, bc_link, bc_input, bc_device_info, bc_p2p_data,
                   bc_ops, bc_calls, bc_write, key_count, gsConfig, p2p_received, notBle>>

\* What a STATUS read may return: the DeviceInfo of GattServerState::new
\* (server.rs:60-70) with the given key, a DeviceInfo without key, or bytes that
\* are no DeviceInfo.
StatusBlobs(public_keys) ==
    {DeviceInfoToJson(DeviceInfoNew(k, <<2, 2, 1>>)) : k \in public_keys}
        \cup {DeviceInfoToJson(DeviceInfo(0, None, <<2, 2, 1>>, None)), NotJson}

\* A session: the receiver's GATT server with its security context, or a
\* peripheral without one, and the caller's P2pInfo.
BleInit ==
    /\ bc_pc = "idle"
    /\ bc_result = Running
    /\ bc_link = FALSE
    /\ bc_input \in {P2pInfoNew(s, k, m, p) : s \in SsidSamples, k \in PskSamples,
                                              m \in MacSamples, p \in PortSamples}
    /\ bc_device_info = None
    /\ bc_p2p_data = None
    /\ bc_ops = <<>>
    /\ bc_calls = 0
    /\ bc_write = 0
    /\ key_count = 0
    /\ agreements = <<>>
    /\ \E scalar \in Scalars :
          /\ gs_security \in {None, Some(KeyPair(0, scalar))}
          /\ gs_status \in StatusBlobs({GetPublicKey(scalar), PublicKeyB64("raw", 0)})
    /\ gs_writes = <<>>
    /\ p2p_chan = <<>>
    /\ p2p_waiting = <<>>
    /\ p2p_received = <<>>
    /\ peer_writes = 0

\* The receiver's GATT server alone, with or without a security context; no
\* connect_and_handshake runs.
GsInit ==
    /\ bc_pc = "idle"
    /\ bc_result = Running
    /\ bc_link = FALSE
    /\ bc_input = P2pInfoNew(<<>>, <<>>, <<>>, 0)
    /\ bc_device_info = None
    /\ bc_p2p_data = None
    /\ bc_ops = <<>>
    /\ bc_calls = 0
    /\ bc_write = 0
    /\ key_count = 0
    /\ agreements = <<>>
    /\ \E scalar \in Scalars :
          /\ gs_security \in {None, Some(KeyPair(0, scalar))}
          /\ gs_status = DeviceInfoToJson(DeviceInfoNew(GetPublicKey(scalar), <<2, 2, 1>>))
    /\ gs_writes = <<>>
    /\ p2p_chan = <<>>
    /\ p2p_waiting = <<>>
    /\ p2p_received = <<>>
    /\ peer_writes = 0

\* Nothing of the BLE handshake runs.
BleIdle ==
    /\ bc_pc = "idle"
    /\ bc_result = Running
    /\ bc_link = FALSE
    /\ bc_input = P2pInfoNew(<<>>, <<>>, <<>>, 0)
    /\ bc_device_info = None
    /\ bc_p2p_data = None
    /\ bc_ops = <<>>
    /\ bc_calls = 0
    /\ bc_write = 0
    /\ key_count = 0
    /\ agreements = <<>>
    /\ gs_security = None
    /\ gs_status = NotJson
    /\ gs_writes = <<>>
    /\ p2p_chan = <<>>
    /\ p2p_waiting = <<>>
    /\ p2p_received = <<>>
    /\ peer_writes = 0

\* --------------------------------------------------------- ble/scanner.rs
\* MANUF_ID_XIAOMI (scanner.rs:24)
ManufIdXiaomi == 911

\* A UUID: its first four bytes and whether the other twelve are
\* BASE_UUID_SUFFIX (scanner.rs:30-32).
Uuid(b0, b1, b2, b3, base) == [b0 |-> b0, b1 |-> b1, b2 |-> b2, b3 |-> b3, base |-> base]

\* SCAN_RESP_UUID_STR (scanner.rs:27): 0000ffff-0000-1000-8000-00805f9b34fb
ScanRespUuid == Uuid(0, 0, 255, 255, TRUE)

\* is_mta_uuid (scanner.rs:339-348): 0000333x with x in 1..4, 0x33 = 51 and
\* 0x31..0x34 = 49..52.
IsMtaUuid(u) ==
    IF ~u.base THEN FALSE
    ELSE u.b0 = 0 /\ u.b1 = 0 /\ u.b2 = 51 /\ u.b3 \in 49..52

\* is_mta_device (scanner.rs:321-336)
IsMtaDevice(uuids, service_data, manuf_data) ==
    LET has_mta_uuid == \E u \in uuids : IsMtaUuid(u)
        has_mta_service_data == \E u \in service_data : IsMtaUuid(u)
        has_xiaomi_manuf == ManufIdXiaomi \in manuf_data
        has_scan_resp == ScanRespUuid \in service_data
    IN  has_mta_uuid \/ has_mta_service_data \/ has_xiaomi_manuf \/ has_scan_resp

\* The properties BlueZ holds for a device when parse_device reads them: the
\* UUIDs, the keys of service data and manufacturer data, the name as its words,
\* the RSSI, and the property read that fails, if one does.
Props(uuids, service_data, manuf_data, name, rssi, fail) ==
    [uuids |-> uuids, service_data |-> service_data, manuf_data |-> manuf_data,
     name |-> name, rssi |-> rssi, fail |-> fail]

DiscoveredDevice(name, address, rssi) ==
    [name |-> name, address |-> address, rssi |-> rssi]

\* resolve_device_name, the system name (scanner.rs:355-358)
ResolveDeviceName(props) == UnwrapOr(props.name, <<"<unknown>">>)

ParseErr == [tag |-> "Err"]
ParseNone == [tag |-> "None"]
ParseSome(dev) == [tag |-> "Some", dev |-> dev]

\* parse_device (scanner.rs:288-319)
ParseDevice(address, props) ==
    IF props.fail \in {"uuids", "service_data", "manufacturer_data"} THEN ParseErr
    ELSE IF ~IsMtaDevice(props.uuids, props.service_data, props.manuf_data)
    THEN ParseNone
    ELSE IF props.fail \in {"name", "rssi"} THEN ParseErr
    ELSE ParseSome(DiscoveredDevice(ResolveDeviceName(props), address, props.rssi))

\* The addresses in range.
Addresses == {"AA:01", "AA:02"}

\* UUIDs a peer may list or key its service data with: in the MTA range at both
\* ends, next to the range on both sides, in the range with another base or
\* another high half, the scan response UUID, and an unrelated one.
UuidSamples ==
    { Uuid(0, 0, 51, 49, TRUE), Uuid(0, 0, 51, 52, TRUE),
      Uuid(0, 0, 51, 48, TRUE), Uuid(0, 0, 51, 53, TRUE),
      Uuid(0, 0, 51, 49, FALSE), Uuid(0, 1, 51, 49, TRUE),
      ScanRespUuid, Uuid(0, 0, 24, 15, TRUE) }

\* Known brand names (scanner.rs:166-168)
KnownBrands == {"Redmi", "Xiaomi", "Mi", "POCO", "OnePlus", "OPPO", "vivo", "Realme"}

NameSamples == {None, Some(<<"Xiaomi", "13">>), Some(<<"Pixel", "7">>)}

\* What a peer may advertise: one listed UUID, or one service data entry, or
\* manufacturer data and a name, or nothing of these; and a peer in the MTA
\* range for which one property read fails.
PropsSamples ==
    {Props({u}, {}, {}, None, Some(-40), "none") : u \in UuidSamples}
    \cup
    {Props({}, {u}, {}, None, None, "none") : u \in UuidSamples}
    \cup
    {Props({}, {}, manuf_data, name, Some(-40), "none") :
        manuf_data \in {{}, {ManufIdXiaomi}, {76}}, name \in NameSamples}
    \cup
    {Props({Uuid(0, 0, 51, 49, TRUE)}, {}, {}, Some(<<"Xiaomi", "13">>), Some(-70), fail) :
        fail \in {"none", "uuids", "service_data", "manufacturer_data", "name", "rssi"}}

\* A map that reports no address as present.
ContainsKeyNever(map, addr) == FALSE

\* The address is a key of the map (scanner.rs:268-271, 239).
ContainsKey(map, addr) == map[addr] # None

\* One parse_device call as the trace keeps it.
Observation(addr, props) ==
    [address |-> addr, props |-> props, result |-> ParseDevice(addr, props)]

\* process_device (scanner.rs:261-286), with the first matching observation of
\* each address kept aside.
ProcessDevice(addr, props) ==
    LET res == ParseDevice(addr, props)
    IN  /\ sc_first' = IF res.tag = "Some" /\ sc_first[addr] = None
                       THEN [sc_first EXCEPT ![addr] = Some(res.dev)]
                       ELSE sc_first
        /\ IF ContainsKey(discovered_map, addr)
           THEN /\ sc_passed' = Some(Observation(addr, props))
                /\ UNCHANGED <<discovered_map, sc_callbacks, sc_last>>
           ELSE /\ sc_last' = Some(Observation(addr, props))
                /\ UNCHANGED sc_passed
                /\ IF res.tag = "Some"
                   THEN /\ sc_callbacks' = IF sc_callback
                                           THEN Append(sc_callbacks, res.dev)
                                           ELSE sc_callbacks
                        /\ discovered_map' = [discovered_map EXCEPT ![addr] = Some(res.dev)]
                   ELSE UNCHANGED <<discovered_map, sc_callbacks>>

\* A DeviceAdded event in the select loop (scanner.rs:222-232); adapter.device
\* may fail, and the event is then passed over.
ScDeviceAdded ==
    /\ sc_pc = "events"
    /\ sc_events < MaxScanEvents
    /\ sc_events' = sc_events + 1
    /\ \E addr \in Addresses, device_ok \in BOOLEAN, props \in PropsSamples :
          IF device_ok
          THEN ProcessDevice(addr, props)
          ELSE UNCHANGED <<discovered_map, sc_callbacks, sc_last, sc_first, sc_passed>>
    /\ UNCHANGED <<sc_pc, sc_callback, sc_todo, sc_result, notSc>>

\* The timeout fires or the stream ends, and the cached addresses are read
\* (scanner.rs:222, 233, 237-238); when the read fails there is no walk.
ScTimeout ==
    /\ sc_pc = "events"
    /\ sc_pc' = "cache"
    /\ \E cached_addrs \in SUBSET Addresses : sc_todo' = cached_addrs
    /\ UNCHANGED <<discovered_map, sc_callback, sc_callbacks, sc_events, sc_last,
                   sc_first, sc_passed, sc_result, notSc>>

\* One address of the cache walk (scanner.rs:239-246)
ScCacheWalk ==
    /\ sc_pc = "cache"
    /\ \E addr \in sc_todo :
          /\ sc_todo' = sc_todo \ {addr}
          /\ IF ContainsKey(discovered_map, addr)
             THEN UNCHANGED <<discovered_map, sc_callbacks, sc_last, sc_first, sc_passed>>
             ELSE \E device_ok \in BOOLEAN, props \in PropsSamples :
                    IF device_ok
                    THEN ProcessDevice(addr, props)
                    ELSE UNCHANGED <<discovered_map, sc_callbacks, sc_last, sc_first, sc_passed>>
    /\ UNCHANGED <<sc_pc, sc_callback, sc_events, sc_result, notSc>>

\* discovered_map.into_values().collect() (scanner.rs:249-250)
ScReturn ==
    /\ sc_pc = "cache"
    /\ sc_todo = {}
    /\ sc_pc' = "returned"
    /\ sc_result' = {Unwrap(discovered_map[a]) : a \in {x \in Addresses : discovered_map[x] # None}}
    /\ UNCHANGED <<discovered_map, sc_callback, sc_callbacks, sc_events, sc_todo,
                   sc_last, sc_first, sc_passed, notSc>>

\* scan is called, with or without a callback (scanner.rs:202-208).
ScInit ==
    /\ sc_pc = "events"
    /\ discovered_map = [a \in Addresses |-> None]
    /\ sc_callback \in BOOLEAN
    /\ sc_callbacks = <<>>
    /\ sc_events = 0
    /\ sc_todo = {}
    /\ sc_last = None
    /\ sc_first = [a \in Addresses |-> None]
    /\ sc_passed = None
    /\ sc_result = {}

\* No scan runs.
ScIdle ==
    /\ sc_pc = "idle"
    /\ discovered_map = [a \in Addresses |-> None]
    /\ sc_callback = FALSE
    /\ sc_callbacks = <<>>
    /\ sc_events = 0
    /\ sc_todo = {}
    /\ sc_last = None
    /\ sc_first = [a \in Addresses |-> None]
    /\ sc_passed = None
    /\ sc_result = {}

\* ------------------------------------- wifi/p2p_sender.rs: WiFiP2pSender
\* generate_credentials (p2p_sender.rs:94-121): the prefix DIRECT- and eight
\* random characters, of which the first and the rest are kept apart.
Ssid(first, rest) == [first |-> first, rest |-> rest]

SsidChoices == {Ssid("a", "1"), Ssid("a", "2"), Ssid("b", "1")}

\* "cattysend-hotspot-" and the first eight characters of the ssid
\* (p2p_sender.rs:163-166, nm_dbus.rs:357-360): DIRECT- and one random character.
ConnName(ssid) == [hotspot |-> ssid.first]

\* An NM connection object: its path and its id.
NmConnection(path, name) == [path |-> path, name |-> name]

\* ActiveHotspot (p2p_sender.rs:46-49)
ActiveHotspot(connection_name, connection_path) ==
    [connection_name |-> connection_name, connection_path |-> connection_path]

\* The sender's fields and the host state they refer to.
Sender(client, hotspot, connections, groups, paths) ==
    [nm_client |-> client, active_hotspot |-> hotspot, connections |-> connections,
     groups |-> groups, paths |-> paths]

\* WiFiP2pSender::new (p2p_sender.rs:58-67)
SenderNew == Sender(FALSE, None, {}, {}, 0)

\* One helper's result: the state it leaves, whether it returned Ok, and the IPv4
\* address it had obtained, an Option.
Made(s, ok, ip) == [s |-> s, ok |-> ok, ip |-> ip]

\* delete_connection_by_name (nm_dbus.rs:500-523): the first connection with the
\* id is deleted, here the one picked; without one with the id nothing is.
DeleteConnectionByName(connections, name, pick) ==
    IF pick \in connections /\ pick.name = name
    THEN connections \ {pick}
    ELSE connections

\* The connections delete_connection_by_name may find first.
Picks(connections, name) ==
    IF \E c \in connections : c.name = name
    THEN {c \in connections : c.name = name}
    ELSE {NmConnection(0, name)}

\* ensure_nm_client (p2p_sender.rs:78-92): a client already held is kept.
EnsureNmClient(s, nm_up) == s.nm_client \/ nm_up

NmOutcomes == {"add_failed", "no_device", "activate_failed", "no_ip", "ok"}

\* create_hotspot_nm (p2p_sender.rs:155-202)
CreateHotspotNm(s, ssid, nm_up, delete_ok, pick, o) ==
    IF ~EnsureNmClient(s, nm_up) THEN Made(s, FALSE, None)
    ELSE
    LET conn_name == ConnName(ssid)
        s1 == [s EXCEPT !.nm_client = TRUE,
                        !.connections = IF delete_ok
                                        THEN DeleteConnectionByName(@, conn_name, pick)
                                        ELSE @]
    IN  IF o = "add_failed" THEN Made(s1, FALSE, None)
        ELSE
        LET conn_path == s1.paths + 1
            s2 == [s1 EXCEPT !.paths = conn_path,
                             !.connections = @ \cup {NmConnection(conn_path, conn_name)}]
        IN  IF o \in {"no_device", "activate_failed", "no_ip"}
            THEN Made(s2, FALSE, None)
            ELSE Made([s2 EXCEPT !.active_hotspot =
                                    Some(ActiveHotspot(conn_name, Some(conn_path)))],
                      TRUE, Some("10.42.0.1"))

\* create_p2p_group_wpa (p2p_sender.rs:205-231): p2p_group_add and a sleep.
CreateP2pGroupWpa(s, ssid, wpa_ok) ==
    IF ~wpa_ok THEN Made(s, FALSE, None)
    ELSE Made([s EXCEPT !.groups = @ \cup {ssid},
                        !.active_hotspot = Some(ActiveHotspot(ssid, None))],
              TRUE, None)

\* WiFiP2pSender::create_group (p2p_sender.rs:126-152)
SenderCreateGroup(s, ssid, nm_up, delete_ok, pick, o, wpa_ok) ==
    LET nm == CreateHotspotNm(s, ssid, nm_up, delete_ok, pick, o)
    IN  IF nm.ok THEN nm ELSE CreateP2pGroupWpa(nm.s, ssid, wpa_ok)

\* WiFiP2pSender::stop_group (p2p_sender.rs:234-257)
SenderStopGroup(s, nm_up, delete_ok, pick, remove_ok) ==
    LET s1 == [s EXCEPT !.active_hotspot = None]
        s2 == IF IsSome(s.active_hotspot) /\ EnsureNmClient(s, nm_up)
              THEN [s1 EXCEPT !.nm_client = TRUE,
                              !.connections =
                                  IF delete_ok
                                  THEN DeleteConnectionByName(@,
                                           Unwrap(s.active_hotspot).connection_name, pick)
                                  ELSE @]
              ELSE s1
    IN  [s2 EXCEPT !.groups = IF remove_ok THEN {} ELSE @]

SenderNow == Sender(nm_client, gp_active_hotspot, nm_connections, wpa_groups, gp_paths)

SetSender(s) ==
    /\ nm_client' = s.nm_client
    /\ gp_active_hotspot' = s.active_hotspot
    /\ nm_connections' = s.connections
    /\ wpa_groups' = s.groups
    /\ gp_paths' = s.paths

\* One call as the trace keeps it.
GroupCall(op, ok, ip, cleanup_ok) == [op |-> op, ok |-> ok, ip |-> ip, cleanup_ok |-> cleanup_ok]

\* create_group is called.
GpCreateGroup ==
    /\ gp_calls < MaxGroupCalls
    /\ gp_calls' = gp_calls + 1
    /\ \E ssid \in SsidChoices, nm_up \in BOOLEAN, delete_ok \in BOOLEAN,
          o \in NmOutcomes, wpa_ok \in BOOLEAN :
          \E pick \in Picks(nm_connections, ConnName(ssid)) :
             LET m == SenderCreateGroup(SenderNow, ssid, nm_up, delete_ok, pick, o, wpa_ok)
             IN  /\ SetSender(m.s)
                 /\ gp_last' = Some(GroupCall("create_group", m.ok, m.ip, TRUE))
    /\ UNCHANGED notGp

\* stop_group is called.
GpStopGroup ==
    /\ gp_calls < MaxGroupCalls
    /\ gp_calls' = gp_calls + 1
    /\ \E nm_up \in BOOLEAN, delete_ok \in BOOLEAN, remove_ok \in BOOLEAN :
          \E pick \in IF IsSome(gp_active_hotspot)
                      THEN Picks(nm_connections, Unwrap(gp_active_hotspot).connection_name)
                      ELSE {NmConnection(0, ConnName(Ssid("a", "1")))} :
             LET s == SenderStopGroup(SenderNow, nm_up, delete_ok, pick, remove_ok)
             IN  /\ SetSender(s)
                 /\ gp_last' = Some(GroupCall("stop_group", TRUE, None,
                                              (nm_client \/ nm_up) /\ delete_ok /\ remove_ok))
    /\ UNCHANGED notGp

GpInit ==
    /\ nm_client = FALSE
    /\ gp_active_hotspot = None
    /\ nm_connections = {}
    /\ wpa_groups = {}
    /\ gp_paths = 0
    /\ gp_last = None
    /\ gp_calls = 0

\* No WiFiP2pSender is in use.
GpIdle == GpInit

\* ------------------------------- sender_server.rs: download_handler, the ZIP
\* Text is a sequence of characters, so that format! and split act on it.
Digits == <<"0", "1", "2", "3", "4", "5", "6", "7", "8", "9">>

\* format!("{}", i) of an index
RECURSIVE Decimal(_)
Decimal(i) ==
    IF i < 10 THEN <<Digits[i + 1]>>
    ELSE Decimal(i \div 10) \o <<Digits[(i % 10) + 1]>>

\* Paths of files on the sender: a directory and a file name.
Path(dir, name) == [dir |-> dir, name |-> name]
SenderPaths == {Path("x", <<"a">>), Path("y", <<"a">>), Path("x", <<"b">>)}
Contents == {"p", "q"}

\* The file entry the send workflow makes of a path: name is path.file_name().
FileEntry(path) == [path |-> path, name |-> path.name]

TransferTask(id, files) == [task_id |-> id, files |-> files]

\* format!("{}/{}", i, file.name)
EntryName(i, name) == Decimal(i) \o <<"/">> \o name

\* The archive as the sequence of its entries, in the order they were written.
Zip(entries) == [tag |-> "zip", entries |-> entries]
PlainText(text) == [tag |-> "text", text |-> text]

Readable(files, fs) == \A i \in 1..Len(files) : fs[files[i].path] # None

\* create_zip_response: one stored entry per file, named by index and name;
\* an error when a file cannot be opened or read.
CreateZipResponse(files, fs) ==
    IF Readable(files, fs)
    THEN Ok(Zip([i \in 1..Len(files) |->
                    [name |-> EntryName(i - 1, files[i].name),
                     data |-> Unwrap(fs[files[i].path])]]))
    ELSE Err("io")

Response(status, body) == [status |-> status, body |-> body]

DownloadHandlerTakesTask(task, query_task_id, fs) ==
    IF task.task_id # query_task_id
    THEN [task |-> task, response |-> Response(404, PlainText("Task not found"))]
    ELSE LET zip == CreateZipResponse(task.files, fs)
         IN  [task |-> TransferTask(task.task_id, <<>>),
              response |-> IF zip.tag = "Ok" THEN Response(200, zip.value)
                           ELSE Response(500, PlainText("Failed to create ZIP"))]

\* download_handler: compares the ids under the lock, clones the task, builds
\* the archive from the clone. Yields the task the server holds afterwards and
\* the response.
DownloadHandler(task, query_task_id, fs) ==
    IF task.task_id # query_task_id
    THEN [task |-> task, response |-> Response(404, PlainText("Task not found"))]
    ELSE LET zip == CreateZipResponse(task.files, fs)
         IN  [task |-> task,
              response |-> IF zip.tag = "Ok" THEN Response(200, zip.value)
                           ELSE Response(500, PlainText("Failed to create ZIP"))]

Served(query_task_id, response) ==
    [query_task_id |-> query_task_id, response |-> response]

DlDownload ==
    /\ Len(dl_log) < MaxDownloads
    /\ rx_files = None
    /\ \E query_task_id \in TaskIds :
         LET h == DownloadHandler(dl_task, query_task_id, dl_fs)
         IN  /\ dl_task' = h.task
             /\ dl_log' = Append(dl_log, Served(query_task_id, h.response))
    /\ UNCHANGED <<dl_fs, rx_output_dir, rx_files>>
    /\ UNCHANGED notDl

\* ------------------------------------------ receiver_client.rs: extract_zip
\* name.split('/').next_back(): what follows the last '/'
RECURSIVE AfterLastSlash(_)
AfterLastSlash(name) ==
    IF \E i \in 1..Len(name) : name[i] = "/"
    THEN AfterLastSlash(Tail(name))
    ELSE name

\* ZipFile::is_dir: the entry's name ends in '/'
IsDir(name) == name # <<>> /\ name[Len(name)] = "/"

OutputPath(filename) == Path("out", filename)

\* The output directory as a function of file names.
WriteFile(dir, filename, data) ==
    [n \in DOMAIN dir \cup {filename} |-> IF n = filename THEN data ELSE dir[n]]

\* The loop of extract_zip over archive.by_index(i): directories are skipped,
\* every other entry is written to output_dir/filename (File::create
\* truncates) and its path pushed.
RECURSIVE ExtractEntries(_, _, _)
ExtractEntries(entries, dir, files) ==
    IF entries = <<>> THEN [dir |-> dir, files |-> files]
    ELSE LET file == Head(entries)
             filename == AfterLastSlash(file.name)
         IN  IF IsDir(file.name)
             THEN ExtractEntries(Tail(entries), dir, files)
             ELSE ExtractEntries(Tail(entries),
                                 WriteFile(dir, filename, file.data),
                                 Append(files, OutputPath(filename)))

\* extract_zip: ZipArchive::new fails on a body that is no archive.
ExtractZip(body, dir) ==
    IF body.tag # "zip" THEN [dir |-> dir, files |-> Err("zip")]
    ELSE LET x == ExtractEntries(body.entries, dir, <<>>)
         IN  [dir |-> x.dir, files |-> Ok(x.files)]

\* The receiver extracts the body of the response it was given.
RxExtractZip ==
    /\ dl_log # <<>>
    /\ rx_files = None
    /\ LET x == ExtractZip(dl_log[Len(dl_log)].response.body, rx_output_dir)
       IN  /\ rx_output_dir' = x.dir
           /\ rx_files' = Some(x.files)
    /\ UNCHANGED <<dl_task, dl_fs, dl_log>>
    /\ UNCHANGED notDl

\* A task of up to MaxTaskFiles of the sender's files, which may share a file
\* name across directories; each file readable with some contents, or not.
DlInit ==
    /\ \E paths \in SeqsOver(SenderPaths, MaxTaskFiles) :
         dl_task = TransferTask("T1", [i \in DOMAIN paths |-> FileEntry(paths[i])])
    /\ dl_fs \in [SenderPaths -> {None} \cup {Some(c) : c \in Contents}]
    /\ dl_log = <<>>
    /\ rx_output_dir = <<>>
    /\ rx_files = None

DlIdle ==
    /\ dl_task = TransferTask("T1", <<>>)
    /\ dl_fs = [p \in SenderPaths |-> None]
    /\ dl_log = <<>>
    /\ rx_output_dir = <<>>
    /\ rx_files = None

\* ------------------------------------------ protocol.rs: WsMessage as text
\* Texts are sequences of characters. \w and \d of MSG_PATTERN on the
\* characters the model draws from; "." matches every character but "\n".
DigitChars == {"0", "1", "2"}
WordChars == {"a", "k"} \cup DigitChars

\* u32::MAX, scaled down so that a two-digit id can exceed it.
U32Max == 20

\* The longest prefix of s made of characters of cs: what a greedy cs+ takes.
RECURSIVE Run(_, _)
Run(cs, s) ==
    IF s # <<>> /\ s[1] \in cs THEN <<s[1]>> \o Run(cs, Tail(s)) ELSE <<>>

Drop(s, n) == SubSeq(s, n + 1, Len(s))

DigitValue(c) == CHOOSE d \in 0..9 : Digits[d + 1] = c

\* str::parse::<u32> of a run of digits: None on overflow
RECURSIVE ParseU32Acc(_, _)
ParseU32Acc(s, acc) ==
    IF s = <<>> THEN Some(acc)
    ELSE LET next == acc * 10 + DigitValue(s[1])
         IN  IF next > U32Max THEN None ELSE ParseU32Acc(Tail(s), next)

ParseU32(s) == IF s = <<>> THEN None ELSE ParseU32Acc(s, 0)

\* serde_json::Value, of a JSON made of numbers and the empty object.
JsonNumber(n) == [tag |-> "number", n |-> n]
JsonEmptyObject == [tag |-> "object", n |-> 0]

RECURSIVE TrimStart(_)
TrimStart(s) == IF s # <<>> /\ s[1] \in {" ", "\n"} THEN TrimStart(Tail(s)) ELSE s

RECURSIVE TrimEnd(_)
TrimEnd(s) ==
    IF s # <<>> /\ s[Len(s)] \in {" ", "\n"} THEN TrimEnd(SubSeq(s, 1, Len(s) - 1))
    ELSE s

\* serde_json::from_str: whitespace around the value and inside the braces is
\* skipped; a number has no leading zero; anything else is an error.
JsonFromStr(s) ==
    LET t == TrimEnd(TrimStart(s))
    IN  IF t # <<>> /\ Run(DigitChars, t) = t
        THEN IF Len(t) > 1 /\ t[1] = "0" THEN None
             ELSE LET n == ParseU32Acc(t, 0)
                  IN  IF n = None THEN None ELSE Some(JsonNumber(Unwrap(n)))
        ELSE IF Len(t) >= 2 /\ t[1] = "{" /\ t[Len(t)] = "}"
                    /\ TrimStart(SubSeq(t, 2, Len(t) - 1)) = <<>>
             THEN Some(JsonEmptyObject)
             ELSE None

\* Display of serde_json::Value: the compact text
JsonDisplay(v) == IF v.tag = "number" THEN Decimal(v.n) ELSE <<"{", "}">>

\* WsMessage::parse: MSG_PATTERN ^(\w+):(\d+):(\w+)(\?(.*))?$ matched from the
\* left, then the id parsed as u32 and the fifth group as JSON; a fifth group
\* that is no JSON leaves the payload None.
WsParse(text) ==
    LET g1 == Run(WordChars, text)
        r1 == Drop(text, Len(g1))
        g2 == Run(DigitChars, Drop(r1, 1))
        r2 == Drop(r1, 1 + Len(g2))
        g3 == Run(WordChars, Drop(r2, 1))
        r3 == Drop(r2, 1 + Len(g3))
        matches ==
            /\ g1 # <<>> /\ r1 # <<>> /\ r1[1] = ":"
            /\ g2 # <<>> /\ r2 # <<>> /\ r2[1] = ":"
            /\ g3 # <<>>
            /\ r3 # <<>> => (r3[1] = "?" /\ \A i \in 2..Len(r3) : r3[i] # "\n")
        g5 == IF r3 = <<>> THEN None ELSE Some(Drop(r3, 1))
    IN  IF ~matches THEN None
        ELSE IF ParseU32(g2) = None THEN None
        ELSE Some(WsMessage(g1, Unwrap(ParseU32(g2)), g3,
                            IF g5 = None THEN None ELSE JsonFromStr(Unwrap(g5))))

WsFormatWithoutPayload(m) ==
    m.msg_type \o <<":">> \o Decimal(m.id) \o <<":">> \o m.name

\* Display for WsMessage: type:id:name, then ?payload when there is one
WsFormat(m) ==
    m.msg_type \o <<":">> \o Decimal(m.id) \o <<":">> \o m.name
        \o (IF m.payload # None THEN <<"?">> \o JsonDisplay(Unwrap(m.payload))
            ELSE <<>>)

\* The texts a peer may send, put together from well-formed and malformed
\* parts: type, separator, id, separator, name, question mark, payload.
TypeParts == {<<>>, <<"a">>, <<"k", "1">>, <<" ">>}
Separators == {<<":">>, <<>>}
IdParts == {<<>>, <<"0">>, <<"1">>, <<"0", "1">>, <<"1", "2">>, <<"2", "1">>, <<"a">>}
NameParts == {<<>>, <<"a">>, <<"1">>, <<"a", "k">>}
QueryParts == {<<"?">>, <<>>}
PayloadParts ==
    {<<>>, <<"1">>, <<"0", "1">>, <<" ", "1", " ">>, <<"{", "}">>,
     <<"{", " ", "}">>, <<"{">>, <<"a">>, <<"1", "\n">>, <<"2", "1">>}

Texts ==
    {t \o s1 \o i \o s2 \o n \o q \o p :
        t \in TypeParts, s1 \in Separators, i \in IdParts, s2 \in Separators,
        n \in NameParts, q \in QueryParts, p \in PayloadParts}

\* WsMessage::parse(text)
WsDoParse ==
    /\ ws_pc = "text"
    /\ ws_msg' = WsParse(ws_text)
    /\ ws_pc' = "parsed"
    /\ UNCHANGED <<ws_text, ws_formatted, ws_reparsed>>
    /\ UNCHANGED notWs

\* msg.to_string()
WsDoFormat ==
    /\ ws_pc = "parsed"
    /\ ws_msg # None
    /\ ws_formatted' = WsFormat(Unwrap(ws_msg))
    /\ ws_pc' = "formatted"
    /\ UNCHANGED <<ws_text, ws_msg, ws_reparsed>>
    /\ UNCHANGED notWs

\* WsMessage::parse(&text) of the formatted text
WsDoReparse ==
    /\ ws_pc = "formatted"
    /\ ws_reparsed' = WsParse(ws_formatted)
    /\ ws_pc' = "reparsed"
    /\ UNCHANGED <<ws_text, ws_msg, ws_formatted>>
    /\ UNCHANGED notWs

WsInit ==
    /\ ws_pc = "text"
    /\ ws_text \in Texts
    /\ ws_msg = None
    /\ ws_formatted = <<>>
    /\ ws_reparsed = None

WsIdle ==
    /\ ws_pc = "idle"
    /\ ws_text = <<>>
    /\ ws_msg = None
    /\ ws_formatted = <<>>
    /\ ws_reparsed = None

\* ------------------------------------------------ server.rs: GattServer::start
\* ADV_SERVICE_UUID, by its 16-bit short form 0x3331
AdvServiceUuid == 13105

GattServerOf(random_data, brand_id, supports_5ghz) ==
    [random_data |-> random_data, brand_id |-> brand_id,
     supports_5ghz |-> supports_5ghz]

\* BrandId::id() of Unknown, Xiaomi and Linux; two draws of rand::random()
BrandIds == {0, 30, 200}
RandomData == {<<18, 117>>, <<0, 255>>}

\* ((flag_5ghz as u16) << 8) | (brand as u16)
CapabilityShort(server) ==
    (IF server.supports_5ghz THEN 1 ELSE 0) * 256 + server.brand_id

\* The 6 bytes under the capability UUID: random_data, then zeros
IdentPayload(server) ==
    <<server.random_data[1], server.random_data[2], 0, 0, 0, 0>>

\* The Advertisement start hands to adapter.advertise
Advertisement(server) ==
    [service_uuids |-> {AdvServiceUuid},
     ident_uuid |-> CapabilityShort(server),
     ident_payload |-> IdentPayload(server),
     discoverable |-> TRUE]

\* Session::new, default_adapter, set_powered(true): each ends start on error
AdvOpenAdapter ==
    /\ adv_pc = "new"
    /\ \E ok \in BOOLEAN :
         IF ok THEN /\ adv_pc' = "adapter"
                    /\ UNCHANGED adv_ret
         ELSE /\ adv_pc' = "returned"
              /\ adv_ret' = Some(Err("adapter"))
    /\ UNCHANGED <<adv_server, mgmt_socket, adv_tried, adv_handle>>
    /\ UNCHANGED notAdv

\* adapter.serve_gatt_application(app)
AdvServeGattApplication ==
    /\ adv_pc = "adapter"
    /\ \E ok \in BOOLEAN :
         IF ok THEN /\ adv_pc' = "served"
                    /\ UNCHANGED adv_ret
         ELSE /\ adv_pc' = "returned"
              /\ adv_ret' = Some(Err("gatt"))
    /\ UNCHANGED <<adv_server, mgmt_socket, adv_tried, adv_handle>>
    /\ UNCHANGED notAdv

\* adapter.advertise(adv): the only advertising call of start; its error is
\* the error of start. The management socket is not opened.
AdvAdvertise ==
    /\ adv_pc = "served"
    /\ adv_tried' = Append(adv_tried, "advertise")
    /\ adv_pc' = "returned"
    /\ \E ok \in BOOLEAN :
         IF ok THEN /\ adv_handle' = Some(Advertisement(adv_server))
                    /\ adv_ret' = Some(Ok("handle"))
         ELSE /\ adv_ret' = Some(Err("advertise"))
              /\ UNCHANGED adv_handle
    /\ UNCHANGED <<adv_server, mgmt_socket>>
    /\ UNCHANGED notAdv

AdvInit ==
    /\ adv_pc = "new"
    /\ adv_server \in {GattServerOf(r, b, f) :
                          r \in RandomData, b \in BrandIds, f \in BOOLEAN}
    /\ mgmt_socket \in BOOLEAN
    /\ adv_tried = <<>>
    /\ adv_handle = None
    /\ adv_ret = None

AdvIdle ==
    /\ adv_pc = "idle"
    /\ adv_server = GattServerOf(<<0, 0>>, 0, FALSE)
    /\ mgmt_socket = FALSE
    /\ adv_tried = <<>>
    /\ adv_handle = None
    /\ adv_ret = None

\* ------------------------------------------------- scanner.rs: Brand::from
\* i16::MIN and i16::MAX
I16Min == -32768
I16Max == 32767

\* A variant of Brand without data, and Unknown(id)
Brand(name) == [tag |-> name, id |-> 0]
BrandUnknown(id) == [tag |-> "Unknown", id |-> id]

BrandFromRangesFirst(id) ==
    CASE id \in 10..19 -> Brand("Oppo")
      [] id = 11 -> Brand("Realme")
      [] id \in 20..29 -> Brand("Vivo")
      [] id \in 30..39 -> Brand("Xiaomi")
      [] id = 32 -> Brand("BlackShark")
      [] OTHER -> BrandUnknown(id)

\* The arms of the match, the first that matches taken
BrandFrom(id) ==
    IF id = 11 THEN Brand("Realme")
    ELSE IF id \in 10..19 THEN Brand("Oppo")
    ELSE IF id \in 20..29 THEN Brand("Vivo")
    ELSE IF id = 32 THEN Brand("BlackShark")
    ELSE IF id \in 30..39 THEN Brand("Xiaomi")
    ELSE IF id \in 41..45 THEN Brand("OnePlus")
    ELSE IF id \in 50..59 THEN Brand("Meizu")
    ELSE IF id \in 60..69 THEN Brand("Nubia")
    ELSE IF id \in 70..75 THEN Brand("Samsung")
    ELSE IF id \in 80..89 THEN Brand("Zte")
    ELSE IF id \in 90..95 THEN Brand("Smartisan")
    ELSE IF id \in 100..109 THEN Brand("Lenovo")
    ELSE IF id \in 110..119 THEN Brand("Motorola")
    ELSE IF id \in 120..129 THEN Brand("Nio")
    ELSE IF id \in 140..149 THEN Brand("Honor")
    ELSE IF id \in (-86)..(-77) \/ id \in 170..179 THEN Brand("Hisense")
    ELSE IF id = -96 \/ id = 160 THEN Brand("Rog")
    ELSE IF id \in (-95)..(-87) \/ id \in 161..169 THEN Brand("Asus")
    ELSE BrandUnknown(id)

\* Brand::from(id)
BrFrom ==
    /\ br_brand = None
    /\ br_id \in I16Min..I16Max
    /\ br_brand' = Some(BrandFrom(br_id))
    /\ UNCHANGED br_id
    /\ UNCHANGED notBr

BrInit ==
    /\ br_id \in I16Min..I16Max
    /\ br_brand = None

BrIdle ==
    /\ br_id = 0
    /\ br_brand = None

\* -------------------------------- mgmt_advertiser.rs: the legacy advertisement
\* A device name and identity data of n bytes.
NameOfLen(n) == [i \in 1..n |-> 97 + (i % 26)]
IdentOfLen(n) == [i \in 1..n |-> i]

Min(a, b) == IF a < b THEN a ELSE b

Take(s, n) == SubSeq(s, 1, Min(n, Len(s)))

LegacyAdvConfig(adv_data, scan_rsp_data) ==
    [controller_index |-> 0, instance |-> 1, connectable |-> TRUE,
     discoverable |-> TRUE, adv_data |-> adv_data,
     scan_rsp_data |-> scan_rsp_data, duration |-> 0, timeout |-> 0]

CatshareCompatibleWholeName(service_uuid, ident_uuid, ident_data, device_name) ==
    LegacyAdvConfig(
        <<2, 1, 6, 3, 3, service_uuid % 256, service_uuid \div 256,
          3 + Min(Len(ident_data), 6), 22, ident_uuid % 256, ident_uuid \div 256>>
            \o Take(ident_data, 6),
        IF Len(device_name) > 0
        THEN <<(1 + Len(device_name)) % 256, 9>> \o device_name
        ELSE <<>>)

\* LegacyAdvConfig::catshare_compatible: flags, the 16-bit service UUID low
\* byte first, the service data of at most 6 identity bytes; in the scan
\* response the complete local name of at most 29 bytes, when there is one.
CatshareCompatible(service_uuid, ident_uuid, ident_data, device_name) ==
    LET ident_data_len == Min(Len(ident_data), 6)
        name_len == Min(Len(device_name), 29)
    IN  LegacyAdvConfig(
            <<2, 1, 6, 3, 3, service_uuid % 256, service_uuid \div 256,
              3 + ident_data_len, 22, ident_uuid % 256, ident_uuid \div 256>>
                \o Take(ident_data, ident_data_len),
            IF name_len > 0
            THEN <<1 + name_len, 9>> \o Take(device_name, name_len)
            ELSE <<>>)

AdvArgs(service_uuid, ident_uuid, ident_data, device_name) ==
    [service_uuid |-> service_uuid, ident_uuid |-> ident_uuid,
     ident_data |-> ident_data, device_name |-> device_name]

\* Service UUIDs 0x3331 and 0xffff, identity UUIDs 0x011e and 0, identity data
\* shorter and longer than 6 bytes, names up to MaxNameLen bytes.
AdvArgsSamples ==
    {AdvArgs(s, u, IdentOfLen(d), NameOfLen(n)) :
        s \in {AdvServiceUuid, U16Max}, u \in {286, 0}, d \in {0, 2, 6, 7},
        n \in {0, 1, 12, 29, MaxNameLen}}

\* LegacyAdvConfig::catshare_compatible(..)
MgConfig ==
    /\ mg_config = None
    /\ mg_config' = Some(CatshareCompatible(mg_args.service_uuid, mg_args.ident_uuid,
                                            mg_args.ident_data, mg_args.device_name))
    /\ UNCHANGED <<mg_args, mg_client, mg_active, mg_instances, mg_last, mg_calls>>
    /\ UNCHANGED notMg

AdvCall(op, ok) == [op |-> op, ok |-> ok]

\* MgmtLegacyAdvertiser::new: Client::open()? then active = false
MgNew ==
    /\ mg_config # None
    /\ ~mg_client
    /\ mg_calls < MaxAdvCalls
    /\ \E open_ok \in BOOLEAN :
         /\ mg_client' = open_ok
         /\ mg_last' = Some(AdvCall("new", open_ok))
    /\ mg_active' = FALSE
    /\ mg_calls' = mg_calls + 1
    /\ UNCHANGED <<mg_args, mg_config, mg_instances>>
    /\ UNCHANGED notMg

Advertiser(active, instances) == [active |-> active, instances |-> instances]

\* MgmtLegacyAdvertiser::stop: nothing when not active; else RemoveAdvertising,
\* whose error is logged only, and active = false. Always Ok.
AdvertiserStop(a, instance, remove_ok) ==
    IF ~a.active THEN a
    ELSE Advertiser(FALSE, IF remove_ok THEN a.instances \ {instance} ELSE a.instances)

\* MgmtLegacyAdvertiser::start: stop first when active; AddAdvertising, whose
\* error is returned; then active = true.
AdvertiserStart(a, instance, remove_ok, add_ok) ==
    LET stopped == AdvertiserStop(a, instance, remove_ok)
    IN  IF add_ok
        THEN [advertiser |-> Advertiser(TRUE, stopped.instances \cup {instance}),
              ok |-> TRUE]
        ELSE [advertiser |-> stopped, ok |-> FALSE]

MgStart ==
    /\ mg_client
    /\ mg_calls < MaxAdvCalls
    /\ \E remove_ok \in BOOLEAN, add_ok \in BOOLEAN :
         LET r == AdvertiserStart(Advertiser(mg_active, mg_instances),
                                  Unwrap(mg_config).instance, remove_ok, add_ok)
         IN  /\ mg_active' = r.advertiser.active
             /\ mg_instances' = r.advertiser.instances
             /\ mg_last' = Some(AdvCall("start", r.ok))
    /\ mg_calls' = mg_calls + 1
    /\ UNCHANGED <<mg_args, mg_config, mg_client>>
    /\ UNCHANGED notMg

MgStop ==
    /\ mg_client
    /\ mg_calls < MaxAdvCalls
    /\ \E remove_ok \in BOOLEAN :
         LET a == AdvertiserStop(Advertiser(mg_active, mg_instances),
                                 Unwrap(mg_config).instance, remove_ok)
         IN  /\ mg_active' = a.active
             /\ mg_instances' = a.instances
    /\ mg_last' = Some(AdvCall("stop", TRUE))
    /\ mg_calls' = mg_calls + 1
    /\ UNCHANGED <<mg_args, mg_config, mg_client>>
    /\ UNCHANGED notMg

MgInit ==
    /\ mg_args \in AdvArgsSamples
    /\ mg_config = None
    /\ mg_client = FALSE
    /\ mg_active = FALSE
    /\ mg_instances = {}
    /\ mg_last = None
    /\ mg_calls = 0

MgIdle ==
    /\ mg_args = AdvArgs(0, 0, <<>>, <<>>)
    /\ mg_config = None
    /\ mg_client = FALSE
    /\ mg_active = FALSE
    /\ mg_instances = {}
    /\ mg_last = None
    /\ mg_calls = 0

\* ----------------------------------------------- config.rs: AppSettings::load
\* The fields of AppSettings; none carries #[serde(default)].
SettingsFields ==
    {"device_name", "brand_id", "supports_5ghz", "wifi_interface", "download_dir",
     "auto_accept", "verbose"}

\* AppSettings::default(), each value by its text
SettingsDefault ==
    [device_name |-> "hostname", brand_id |-> "Xiaomi", supports_5ghz |-> "true",
     wifi_interface |-> "wlan0", download_dir |-> "Downloads",
     auto_accept |-> "false", verbose |-> "false"]

\* The values a user stored, each unlike the default.
SettingsStored ==
    [device_name |-> "mybox", brand_id |-> "Oppo", supports_5ghz |-> "false",
     wifi_interface |-> "wlan1", download_dir |-> "/tmp",
     auto_accept |-> "true", verbose |-> "true"]

\* A settings file: a TOML table holding the stored values of some fields.
TomlTable(fields) == [kind |-> "toml", fields |-> fields]
SettingsFiles ==
    {[kind |-> "missing"], [kind |-> "unreadable"], [kind |-> "garbage"]}
        \cup {TomlTable(fields) : fields \in SUBSET SettingsFields}

\* toml::from_str::<AppSettings>: the derived Deserialize requires every
\* field; a missing one is an error.
TomlFromStr(file) ==
    IF file.kind # "toml" THEN Err("parse")
    ELSE IF file.fields # SettingsFields THEN Err("missing field")
    ELSE Ok([f \in SettingsFields |-> SettingsStored[f]])

\* AppSettings::load: the parsed settings when the file exists, can be read
\* and parses; the defaults otherwise.
SettingsLoad(file) ==
    IF file.kind \in {"missing", "unreadable"} THEN SettingsDefault
    ELSE LET parsed == TomlFromStr(file)
         IN  IF parsed.tag = "Ok" THEN parsed.value ELSE SettingsDefault

StLoad ==
    /\ st_settings = None
    /\ st_file.kind # "none"
    /\ st_settings' = Some(SettingsLoad(st_file))
    /\ UNCHANGED st_file
    /\ UNCHANGED notSt

StInit ==
    /\ st_file \in SettingsFiles
    /\ st_settings = None

StIdle ==
    /\ st_file = [kind |-> "none"]
    /\ st_settings = None

\* -------------------- sender_server.rs: the connections of one TransferServer
Conns == 1..MaxConns

WsConn(cpc, mid, n) == [pc |-> cpc, msg_id |-> mid, frames |-> n]

\* The statuses a turn of the handler hands to status_tx.send.
StatusSends(events) ==
    LET sends == SelectSeq(events, LAMBDA e : e.ev = "status_tx")
    IN  [i \in 1..Len(sends) |-> sends[i].status]

\* broadcast::Sender::send: every receiver that exists gets the value.
McBroadcast(c, statuses) ==
    /\ mc_sent' = mc_sent \o [i \in 1..Len(statuses) |-> [conn |-> c, status |-> statuses[i]]]
    /\ mc_status_rx' = IF mc_status_rx = None THEN None
                       ELSE Some(Unwrap(mc_status_rx) \o statuses)

\* sender_server.rs:157-166: the listener accepts a stream and spawns
\* handle_websocket_connection on it.
McSpawn(c) ==
    /\ mc_conns[c].pc = "none"
    /\ mc_conns' = [mc_conns EXCEPT ![c] = WsConn("accept", 0, 0)]
    /\ UNCHANGED <<mc_sent, mc_status_rx>>
    /\ UNCHANGED notMc

\* sender_server.rs:182-189 on connection c
McHello(c) ==
    /\ mc_conns[c].pc = "accept"
    /\ \E acceptOk \in BOOLEAN, sendOk \in BOOLEAN :
          mc_conns' = [mc_conns EXCEPT ![c].pc = SrvHelloStep(acceptOk, sendOk).pc]
    /\ UNCHANGED <<mc_sent, mc_status_rx>>
    /\ UNCHANGED notMc

\* sender_server.rs:192-282: one turn of connection c's message loop. The
\* handlers share nothing but the state behind the mutex, of which they use
\* status_tx.
McReadFrame(c) ==
    /\ mc_conns[c].pc = "loop"
    /\ mc_conns[c].frames < MaxConnFrames
    /\ \E f \in SrvFrames, sendOk \in BOOLEAN :
          LET s == SrvOnFrame(f, sendOk)
          IN  /\ mc_conns' = [mc_conns EXCEPT ![c] =
                                 WsConn(s.pc, @.msg_id + (s.msg_id - srv_msg_id), @.frames + 1)]
              /\ McBroadcast(c, StatusSends(s.events))
    /\ UNCHANGED notMc

\* TransferServer::subscribe_status_async (sender_server.rs:103-106)
McSubscribe ==
    /\ mc_status_rx = None
    /\ mc_status_rx' = Some(<<>>)
    /\ UNCHANGED <<mc_conns, mc_sent>>
    /\ UNCHANGED notMc

McInit ==
    /\ mc_conns = [c \in Conns |-> WsConn("none", 0, 0)]
    /\ mc_sent = <<>>
    /\ mc_status_rx = None

McIdle ==
    /\ mc_conns = <<>>
    /\ mc_sent = <<>>
    /\ mc_status_rx = None

\* ------------------- server.rs / scanner.rs: service data, encoded and decoded
HexChars ==
    <<"0", "1", "2", "3", "4", "5", "6", "7", "8", "9", "a", "b", "c", "d", "e", "f">>

\* format!("{:x}", b) of a byte
HexByte(b) ==
    IF b < 16 THEN <<HexChars[b + 1]>>
    ELSE <<HexChars[(b \div 16) + 1], HexChars[(b % 16) + 1]>>

\* format!("{:02x}", b) of a byte
HexByte02(b) == <<HexChars[(b \div 16) + 1], HexChars[(b % 16) + 1]>>

\* format!("{:04x}", v) of a u16
HexU16(v) ==
    <<HexChars[(v \div 4096) + 1], HexChars[((v \div 256) % 16) + 1],
      HexChars[((v \div 16) % 16) + 1], HexChars[(v % 16) + 1]>>

SenderIdFromRandomDataUnpadded(random_data) ==
    HexByte(random_data[1]) \o HexByte(random_data[2])

\* sender_id_from_random_data (server.rs:38-41)
SenderIdFromRandomData(random_data) ==
    HexByte02(random_data[1]) \o HexByte02(random_data[2])

\* u16::from_be_bytes
U16FromBeBytes(hi, lo) == hi * 256 + lo

\* A device name is a sequence of characters, each the bytes of its UTF-8
\* encoding.
RECURSIVE AsBytes(_)
AsBytes(name) == IF name = <<>> THEN <<>> ELSE Head(name) \o AsBytes(Tail(name))

\* The longest prefix of the name, in whole characters, of at most n bytes:
\* what from_utf8_lossy of the first n bytes leaves once the characters that
\* are no prefix of the name are popped (server.rs:310-314).
RECURSIVE TruncateAtBoundary(_, _)
TruncateAtBoundary(name, n) ==
    IF name = <<>> \/ Len(Head(name)) > n THEN <<>>
    ELSE <<Head(name)>> \o TruncateAtBoundary(Tail(name), n - Len(Head(name)))

\* GattServer::new (server.rs:92-119) with with_brand and with_5ghz_support
AdvertisingServer(random_data, device_name, brand_id, supports_5ghz) ==
    [random_data |-> random_data, sender_id |-> SenderIdFromRandomData(random_data),
     device_name |-> device_name, brand_id |-> brand_id,
     supports_5ghz |-> supports_5ghz]

\* Uuid::from_u128((capability_short as u128) << 96 | base) (server.rs:278-280)
IdentUuid(server) ==
    Uuid(0, 0, CapabilityShort(server) \div 256, CapabilityShort(server) % 256, TRUE)

\* The 27 bytes under 0000ffff (server.rs:294-321): eight zeros, random_data,
\* sixteen bytes of name, the protocol version. A name of more than 15 bytes is
\* cut to 15 at a character boundary and gets a tab.
NamePayload(server) ==
    LET name_bytes == AsBytes(server.device_name)
        field == IF Len(name_bytes) <= 15 THEN name_bytes
                 ELSE AsBytes(TruncateAtBoundary(server.device_name, 15)) \o <<9>>
        copy_len == Min(Len(field), 16)
    IN  [i \in 1..27 |->
            CASE i \in {9, 10} -> server.random_data[i - 8]
              [] i \in 11..(10 + copy_len) -> field[i - 10]
              [] i = 27 -> 1
              [] OTHER -> 0]

\* BTreeMap::insert on a map held as its set of entries
MapInsert(map, key, value) ==
    {e \in map : e.uuid # key} \cup {[uuid |-> key, data |-> value]}

\* The service_data of the Advertisement (server.rs:323-325)
ServiceData(server) ==
    MapInsert(MapInsert({}, IdentUuid(server), IdentPayload(server)),
              ScanRespUuid, NamePayload(server))

Metadata(sender_id, brand_id, supports_5ghz) ==
    [sender_id |-> sender_id, brand_id |-> brand_id, supports_5ghz |-> supports_5ghz]

\* as i16 of a u16
AsI16(v) == IF v >= 32768 THEN v - 65536 ELSE v

\* One turn of the loop over service_data (scanner.rs:404-423)
MetadataOfEntry(meta, e) ==
    CASE Len(e.data) = 27 ->
           [meta EXCEPT !.sender_id = HexU16(U16FromBeBytes(e.data[9], e.data[10]))]
      [] Len(e.data) = 6 ->
           IF e.uuid.b0 = 0 /\ e.uuid.b1 = 0
           THEN [meta EXCEPT !.supports_5ghz = (e.uuid.b2 = 1),
                             !.brand_id = Some(e.uuid.b3)]
           ELSE meta
      [] OTHER -> meta

RECURSIVE MetadataOfEntries(_, _)
MetadataOfEntries(meta, entries) ==
    IF entries = <<>> THEN meta
    ELSE MetadataOfEntries(MetadataOfEntry(meta, Head(entries)), Tail(entries))

\* parse_service_metadata (scanner.rs:395-439) on the entries in the order the
\* map yields them, and the first key of the manufacturer data, if any
ParseServiceMetadata(entries, manuf_key) ==
    LET meta == MetadataOfEntries(Metadata(<<"0", "0", "0", "0">>, None, FALSE), entries)
    IN  IF meta.brand_id = None /\ manuf_key # None
        THEN [meta EXCEPT !.brand_id = Some(AsI16(Unwrap(manuf_key)))]
        ELSE meta

\* The orders in which a HashMap may yield its entries.
IterationOrders(map) ==
    {s \in [1..Cardinality(map) -> map] : \A e \in map : \E i \in DOMAIN s : s[i] = e}

\* Every value of the u8 that BrandId::id() returns.
BrandBytes == 0..255

\* Draws of rand::random::<[u8; 2]>()
RandomDataSamples == {<<18, 117>>, <<0, 255>>, <<171, 205>>, <<10, 0>>}

\* Device names: empty, short, of 15 and of 16 one-byte characters, and of
\* seven one-byte and three three-byte characters.
DeviceNameSamples ==
    {<<>>, <<<<112>>, <<99>>>>, [i \in 1..15 |-> <<97>>], [i \in 1..16 |-> <<97>>],
     [i \in 1..10 |-> IF i <= 7 THEN <<97>> ELSE <<228, 184, 173>>]}

\* GattServer::start builds the advertisement
MdAdvertise ==
    /\ md_server # None
    /\ md_service_data = None
    /\ md_service_data' = Some(ServiceData(Unwrap(md_server)))
    /\ UNCHANGED <<md_server, md_metadata>>
    /\ UNCHANGED notMd

\* A scanner's parse_device reads the service data; the advertisement carries
\* no manufacturer data.
MdScan ==
    /\ md_service_data # None
    /\ md_metadata = None
    /\ \E entries \in IterationOrders(Unwrap(md_service_data)) :
          md_metadata' = Some(ParseServiceMetadata(entries, None))
    /\ UNCHANGED <<md_server, md_service_data>>
    /\ UNCHANGED notMd

MdInit ==
    /\ md_server \in {Some(AdvertisingServer(r, n, b, f)) :
                        r \in RandomDataSamples, n \in DeviceNameSamples,
                        b \in BrandBytes, f \in BOOLEAN}
    /\ md_service_data = None
    /\ md_metadata = None

MdIdle ==
    /\ md_server = None
    /\ md_service_data = None
    /\ md_metadata = None

\* ---------------------------------------------------------- specifications
Init == RcInit /\ SrvIdle /\ WfIdle /\ RwIdle /\ CrIdle /\ BleIdle /\ ScIdle /\ GpIdle /\ DlIdle /\ WsIdle /\ AdvIdle /\ BrIdle /\ MgIdle /\ StIdle /\ McIdle /\ MdIdle

Next == ReadFrame \/ Download \/ Extract \/ Report

Spec == Init /\ [][Next]_vars

SenderWsInit == SrvInit /\ RcIdle /\ WfIdle /\ RwIdle /\ CrIdle /\ BleIdle /\ ScIdle /\ GpIdle /\ DlIdle /\ WsIdle /\ AdvIdle /\ BrIdle /\ MgIdle /\ StIdle /\ McIdle /\ MdIdle

SenderWsNext == SrvHello \/ SrvReadFrame

SenderWsSpec == SenderWsInit /\ [][SenderWsNext]_vars

SendWorkflowInit == WfInit /\ RcIdle /\ SrvIdle /\ RwIdle /\ CrIdle /\ BleIdle /\ ScIdle /\ GpIdle /\ DlIdle /\ WsIdle /\ AdvIdle /\ BrIdle /\ MgIdle /\ StIdle /\ McIdle /\ MdIdle

SendWorkflowNext ==
    \/ WfPrepare \/ WfStartServer \/ WfCreateGroup \/ WfHandshake \/ WfWait
    \/ WfCleanup \/ ApiStartWithWebsocket \/ ApiSubscribe \/ PeerOpenControl
    \/ PeerStatus

SendWorkflowSpec == SendWorkflowInit /\ [][SendWorkflowNext]_vars

ReceiveWorkflowInit == RwInit /\ RcIdle /\ SrvIdle /\ WfIdle /\ CrIdle /\ BleIdle /\ ScIdle /\ GpIdle /\ DlIdle /\ WsIdle /\ AdvIdle /\ BrIdle /\ MgIdle /\ StIdle /\ McIdle /\ MdIdle

ReceiveWorkflowNext ==
    RwStartGatt \/ RwRecvP2p \/ RwWifiConnect \/ RwClient \/ RwDisconnect

ReceiveWorkflowSpec == ReceiveWorkflowInit /\ [][ReceiveWorkflowNext]_vars

CryptoInit == CrInit /\ RcIdle /\ SrvIdle /\ WfIdle /\ RwIdle /\ BleIdle /\ ScIdle /\ GpIdle /\ DlIdle /\ WsIdle /\ AdvIdle /\ BrIdle /\ MgIdle /\ StIdle /\ McIdle /\ MdIdle

CryptoNext == CrEncrypt \/ CrDecrypt

CryptoSpec == CryptoInit /\ [][CryptoNext]_vars

BleHandshakeInit == BleInit /\ RcIdle /\ SrvIdle /\ WfIdle /\ RwIdle /\ CrIdle /\ ScIdle /\ GpIdle /\ DlIdle /\ WsIdle /\ AdvIdle /\ BrIdle /\ MgIdle /\ StIdle /\ McIdle /\ MdIdle

BleHandshakeNext ==
    \/ BcCall
    \/ BcConnect
    \/ BcDiscover
    \/ BcReadStatus
    \/ BcPackage
    \/ BcWrite
    \/ BcDisconnect
    \/ P2pRecv

BleHandshakeSpec == BleHandshakeInit /\ [][BleHandshakeNext]_vars

GattServerInit == GsInit /\ RcIdle /\ SrvIdle /\ WfIdle /\ RwIdle /\ CrIdle /\ ScIdle /\ GpIdle /\ DlIdle /\ WsIdle /\ AdvIdle /\ BrIdle /\ MgIdle /\ StIdle /\ McIdle /\ MdIdle

GattServerNext ==
    \/ GsPeerWrite
    \/ P2pRecv

GattServerSpec == GattServerInit /\ [][GattServerNext]_vars

ScanInit == ScInit /\ RcIdle /\ SrvIdle /\ WfIdle /\ RwIdle /\ CrIdle /\ BleIdle /\ GpIdle /\ DlIdle /\ WsIdle /\ AdvIdle /\ BrIdle /\ MgIdle /\ StIdle /\ McIdle /\ MdIdle

ScanNext ==
    \/ ScDeviceAdded
    \/ ScTimeout
    \/ ScCacheWalk
    \/ ScReturn

ScanSpec == ScanInit /\ [][ScanNext]_vars

WifiSenderInit ==
    GpInit /\ RcIdle /\ SrvIdle /\ WfIdle /\ RwIdle /\ CrIdle /\ BleIdle /\ ScIdle /\ DlIdle /\ WsIdle /\ AdvIdle /\ BrIdle /\ MgIdle /\ StIdle /\ McIdle /\ MdIdle

WifiSenderNext ==
    \/ GpCreateGroup
    \/ GpStopGroup

WifiSenderSpec == WifiSenderInit /\ [][WifiSenderNext]_vars

DownloadInit ==
    DlInit /\ RcIdle /\ SrvIdle /\ WfIdle /\ RwIdle /\ CrIdle /\ BleIdle /\ ScIdle /\ GpIdle /\ WsIdle /\ AdvIdle /\ BrIdle /\ MgIdle /\ StIdle /\ McIdle /\ MdIdle

DownloadNext ==
    \/ DlDownload
    \/ RxExtractZip

DownloadSpec == DownloadInit /\ [][DownloadNext]_vars

ProtocolInit ==
    WsInit /\ RcIdle /\ SrvIdle /\ WfIdle /\ RwIdle /\ CrIdle /\ BleIdle /\ ScIdle /\ GpIdle /\ DlIdle /\ AdvIdle /\ BrIdle /\ MgIdle /\ StIdle /\ McIdle /\ MdIdle

ProtocolNext ==
    \/ WsDoParse
    \/ WsDoFormat
    \/ WsDoReparse

ProtocolSpec == ProtocolInit /\ [][ProtocolNext]_vars

GattStartInit ==
    AdvInit /\ RcIdle /\ SrvIdle /\ WfIdle /\ RwIdle /\ CrIdle /\ BleIdle /\ ScIdle /\ GpIdle /\ DlIdle /\ WsIdle /\ BrIdle /\ MgIdle /\ StIdle /\ McIdle /\ MdIdle

GattStartNext ==
    \/ AdvOpenAdapter
    \/ AdvServeGattApplication
    \/ AdvAdvertise

GattStartSpec == GattStartInit /\ [][GattStartNext]_vars

BrandInit ==
    BrInit /\ RcIdle /\ SrvIdle /\ WfIdle /\ RwIdle /\ CrIdle /\ BleIdle /\ ScIdle /\ GpIdle /\ DlIdle /\ WsIdle /\ AdvIdle /\ MgIdle /\ StIdle /\ McIdle /\ MdIdle

BrandNext == BrFrom

BrandSpec == BrandInit /\ [][BrandNext]_vars

MgmtAdvInit ==
    MgInit /\ RcIdle /\ SrvIdle /\ WfIdle /\ RwIdle /\ CrIdle /\ BleIdle /\ ScIdle /\ GpIdle /\ DlIdle /\ WsIdle /\ AdvIdle /\ BrIdle /\ StIdle /\ McIdle /\ MdIdle

MgmtAdvNext ==
    \/ MgConfig
    \/ MgNew
    \/ MgStart
    \/ MgStop

MgmtAdvSpec == MgmtAdvInit /\ [][MgmtAdvNext]_vars

SettingsInit ==
    StInit /\ RcIdle /\ SrvIdle /\ WfIdle /\ RwIdle /\ CrIdle /\ BleIdle /\ ScIdle /\ GpIdle /\ DlIdle /\ WsIdle /\ AdvIdle /\ BrIdle /\ MgIdle /\ McIdle /\ MdIdle

SettingsNext == StLoad

SettingsSpec == SettingsInit /\ [][SettingsNext]_vars

TransferServerInit ==
    McInit /\ RcIdle /\ SrvIdle /\ WfIdle /\ RwIdle /\ CrIdle /\ BleIdle /\ ScIdle /\ GpIdle /\ DlIdle /\ WsIdle /\ AdvIdle /\ BrIdle /\ MgIdle /\ StIdle /\ MdIdle

TransferServerNext ==
    \/ McSubscribe
    \/ \E c \in Conns : McSpawn(c) \/ McHello(c) \/ McReadFrame(c)

TransferServerSpec == TransferServerInit /\ [][TransferServerNext]_vars

MetadataInit ==
    MdInit /\ RcIdle /\ SrvIdle /\ WfIdle /\ RwIdle /\ CrIdle /\ BleIdle /\ ScIdle /\ GpIdle /\ DlIdle /\ WsIdle /\ AdvIdle /\ BrIdle /\ MgIdle /\ StIdle /\ McIdle

MetadataNext == MdAdvertise \/ MdScan

MetadataSpec == MetadataInit /\ [][MetadataNext]_vars

\* ------------------------------------------------- reading the trace back
Idx == 1..Len(trace)

\* trace[i] is a write.send call of a status action of the given type
IsStatusSend(i, status_type) ==
    /\ trace[i].ev = "send"
    /\ trace[i].msg.msg_type = "action"
    /\ trace[i].msg.name = "status"
    /\ trace[i].msg.payload # <<>>
    /\ trace[i].msg.payload[1].type = status_type

\* the effective task id of the sendRequest frame read at trace[i]
FrameTaskId(i) ==
    LET json == trace[i].frame.payload.json
    IN  CASE json.taskId # "null" -> json.taskId
          [] json.id # "null" -> json.id
          [] OTHER -> "unknown"

\* trace[i] is the read of a frame that parses to a message of this name
IsRecvNamed(i, name) ==
    /\ trace[i].ev = "recv"
    /\ trace[i].frame.kind = "text"
    /\ trace[i].frame.fits
    /\ trace[i].frame.name = name

\* C1: when on_send_request returns false for a sendRequest whose effective task
\* id is T, the receiver makes exactly one write.send of a status action with
\* taskId = T, id = T, type = 3, reason = "user refuse", and start returns an
\* error right after it (the rejection when the send succeeded): the session holds
\* no download request and no status of type 1.
C1_RejectSendsOneRefusal ==
    \A i \in Idx :
        (trace[i].ev = "on_send_request" /\ ~trace[i].accept) =>
            /\ i > 1 /\ IsRecvNamed(i - 1, "sendRequest")
            /\ Len(trace) = i + 1
            /\ trace[i + 1].ev = "send"
            /\ trace[i + 1].msg.msg_type = "action"
            /\ trace[i + 1].msg.name = "status"
            /\ trace[i + 1].msg.payload =
                 <<[k |-> "status", taskId |-> FrameTaskId(i - 1),
                    id |-> FrameTaskId(i - 1), type |-> 3, reason |-> "user refuse"]>>
            /\ Cardinality({j \in Idx : IsStatusSend(j, 3)}) = 1
            /\ \A j \in Idx : trace[j].ev # "get" /\ ~IsStatusSend(j, 1)
            /\ pc = "returned"
            /\ result = IF trace[i + 1].ok THEN "Err:User rejected transfer" ELSE "Err:send"

\* C1 witness: a refused sendRequest whose task id came from the id field, the
\* status delivered, the session over.
C1_Witness ==
    /\ pc = "returned"
    /\ result = "Err:User rejected transfer"
    /\ \E i \in Idx : /\ trace[i].ev = "on_send_request" /\ ~trace[i].accept
                      /\ IsStatusSend(i + 1, 3)
                      /\ trace[i + 1].msg.payload[1].taskId = "T2"

\* C2: when on_send_request returns true for a sendRequest read with id n, the
\* receiver sends ack:n:sendRequest without payload, and the download request that
\* follows is GET /download?taskId=T for the effective task id T of that request
\* (taskId, else id, else "unknown"); no other download request is made.
C2_AcceptAcksThenDownloads ==
    /\ \A i \in Idx :
        (trace[i].ev = "on_send_request" /\ trace[i].accept) =>
            /\ i > 1 /\ IsRecvNamed(i - 1, "sendRequest")
            /\ Len(trace) >= i + 1
            /\ trace[i + 1].ev = "send"
            /\ trace[i + 1].msg =
                 [msg_type |-> "ack", id |-> trace[i - 1].frame.id,
                  name |-> "sendRequest", payload |-> <<>>]
            /\ trace[i + 1].ok =>
                 /\ Len(trace) >= i + 2
                 /\ trace[i + 2] = [ev |-> "get", path |-> "/download",
                                    taskId |-> FrameTaskId(i - 1)]
            /\ ~trace[i + 1].ok => \A j \in Idx : trace[j].ev # "get"
    /\ \A j \in Idx :
        trace[j].ev = "get" =>
            /\ j > 2
            /\ trace[j - 2].ev = "on_send_request" /\ trace[j - 2].accept
            /\ trace[j - 1].ev = "send" /\ trace[j - 1].ok
    /\ Cardinality({j \in Idx : trace[j].ev = "get"}) <= 1

\* C2 witness: an accepted request without taskId and id is downloaded as "unknown",
\* after an ack that echoes id 1.
C2_Witness ==
    \E j \in Idx : /\ trace[j] = [ev |-> "get", path |-> "/download", taskId |-> "unknown"]
                   /\ trace[j - 1].msg.id = 1

\* C3: the status of type 1 is sent with reason "ok" and only right after the
\* download and the extraction both succeeded; on_complete is called, and Ok
\* returned, only after that send succeeded; when the download or the extraction
\* failed no status of type 1 is sent.
C3_CompletionAfterTransfer ==
    /\ \A i \in Idx :
        IsStatusSend(i, 1) =>
            /\ trace[i].msg.payload[1].reason = "ok"
            /\ i > 2
            /\ trace[i - 1].ev = "extract_ok"
            /\ trace[i - 2].ev = "download_ok"
    /\ \A i \in Idx :
        trace[i].ev = "on_complete" =>
            /\ i > 1 /\ IsStatusSend(i - 1, 1) /\ trace[i - 1].ok
            /\ result = "Ok"
    /\ result = "Ok" => /\ Len(trace) > 0
                        /\ trace[Len(trace)].ev = "on_complete"
    /\ (\E i \in Idx : trace[i].ev \in {"download_err", "extract_err"}) =>
            \A j \in Idx : ~IsStatusSend(j, 1) /\ trace[j].ev # "on_complete"

\* C3 witness: a completed transfer.
C3_Witness ==
    /\ result = "Ok"
    /\ \E i \in Idx : IsStatusSend(i, 1) /\ trace[i].ok

\* C4: every versionNegotiation message read with id n is answered by exactly one
\* write.send, of ack:n:versionNegotiation?{"version":1,"threadLimit":5}, and by
\* nothing else before the next frame is read.
C4_VersionNegotiationAcked ==
    \A i \in Idx :
        IsRecvNamed(i, "versionNegotiation") =>
            /\ Len(trace) >= i + 1
            /\ trace[i + 1].ev = "send"
            /\ trace[i + 1].msg =
                 [msg_type |-> "ack", id |-> trace[i].frame.id,
                  name |-> "versionNegotiation",
                  payload |-> <<[k |-> "versionAck", version |-> 1, threadLimit |-> 5]>>]
            /\ Len(trace) >= i + 2 => trace[i + 2].ev = "recv"

\* C4 witness: a versionNegotiation with id 1 was acked and another frame followed.
C4_Witness ==
    \E i \in Idx : /\ IsRecvNamed(i, "versionNegotiation")
                   /\ trace[i].frame.id = 1
                   /\ Len(trace) >= i + 2
                   /\ trace[i + 1].ok

\* C5: a download request is made only after a versionNegotiation action was read
\* and acked on the connection (the sendRequest is accepted only in
\* Await_SendRequest).
C5_DownloadOnlyAfterNegotiation ==
    \A j \in Idx :
        trace[j].ev = "get" =>
            \E i \in 1..(j - 1) :
                /\ IsRecvNamed(i, "versionNegotiation")
                /\ trace[i].frame.msg_type = "action"
                /\ trace[i + 1].ev = "send" /\ trace[i + 1].ok

\* --------------------------------------- reading the sender's trace back
SrvIdx == 1..Len(srv_trace)

IsSrvSend(i) == srv_trace[i].ev = "send"

\* srv_trace[i] is the read of a frame that parses to a message of this kind and name
IsSrvRecv(i, msg_type, name) ==
    /\ srv_trace[i].ev = "recv"
    /\ srv_trace[i].frame.kind = "text"
    /\ srv_trace[i].frame.fits
    /\ srv_trace[i].frame.msg_type = msg_type
    /\ srv_trace[i].frame.name = name

\* C6: on an accepted connection the first message the sender sends is the
\* versionNegotiation action with id 0, and every sendRequest action it sends comes
\* after it read an ack named versionNegotiation on that connection.
C6_NegotiationBeforeSendRequest ==
    /\ srv_pc = "loop" => /\ Len(srv_trace) >= 1
                          /\ srv_trace[1].ev = "send" /\ srv_trace[1].ok
    /\ \A i \in SrvIdx :
        (IsSrvSend(i) /\ \A j \in 1..(i - 1) : ~IsSrvSend(j)) =>
            srv_trace[i].msg =
                [msg_type |-> "action", id |-> 0, name |-> "versionNegotiation",
                 payload |-> <<[k |-> "versions", version |-> 1, versions |-> <<1>>]>>]
    /\ \A j \in SrvIdx :
        (IsSrvSend(j) /\ srv_trace[j].msg.name = "sendRequest"
                      /\ srv_trace[j].msg.msg_type = "action") =>
            \E i \in 1..(j - 1) : IsSrvRecv(i, "ack", "versionNegotiation")

\* C6 witness: a sendRequest went out after other frames and the ack.
C6_Witness ==
    \E j \in SrvIdx : /\ IsSrvSend(j) /\ srv_trace[j].ok
                      /\ srv_trace[j].msg.name = "sendRequest"
                      /\ srv_trace[j].msg.id = 1
                      /\ j > 3

\* the status the claim expects for a status payload
ExpectedStatus(payload) ==
    CASE payload.type = 1 -> [s |-> "Completed"]
      [] payload.type = 3 ->
           [s |-> "Rejected",
            reason |-> IF "reason" \in DOMAIN payload THEN payload.reason ELSE "rejected"]
      [] OTHER -> [s |-> "Failed"]

\* C7: every status action the sender reads (its payload holding a type) is acked,
\* and once the ack went out the outcome is reported on status_tx by its type:
\* 1 as Completed, 3 as Rejected with the payload's reason, any other as Failed.
C7_StatusReportedByType ==
    \A i \in SrvIdx :
        (/\ IsSrvRecv(i, "action", "status")
         /\ srv_trace[i].frame.payload.q = "json"
         /\ "type" \in DOMAIN srv_trace[i].frame.payload.json) =>
            /\ Len(srv_trace) >= i + 1
            /\ srv_trace[i + 1].ev = "send"
            /\ srv_trace[i + 1].msg =
                 [msg_type |-> "ack", id |-> srv_trace[i].frame.id,
                  name |-> "status", payload |-> <<>>]
            /\ srv_trace[i + 1].ok =>
                 /\ Len(srv_trace) >= i + 2
                 /\ srv_trace[i + 2].ev = "status_tx"
                 /\ srv_trace[i + 2].status.s =
                      ExpectedStatus(srv_trace[i].frame.payload.json).s
                 /\ srv_trace[i + 2].status.s = "Rejected" =>
                      srv_trace[i + 2].status =
                          ExpectedStatus(srv_trace[i].frame.payload.json)

\* ------------------------------------------------ claims on send_to_device
\* The receiver did its part of the hand-over: it was given the P2pInfo and tried
\* the control connection it opens, wss on P2pInfo.port.
ReceiverTriedControl ==
    /\ ble_done
    /\ IsSome(p2p_info)
    /\ \E i \in 1..Len(attempts) :
          /\ attempts[i].port = ReceiverAttempt(Unwrap(p2p_info)).port
          /\ attempts[i].tls = ReceiverAttempt(Unwrap(p2p_info)).tls

ServesBoth(p) ==
    /\ \E l \in listeners : l.port = p /\ l.serves = "websocket"
    /\ \E l \in listeners : l.port = p /\ l.serves = "download"

\* C9: the port the server returned, and the port placed in P2pInfo, is one on
\* which the sender accepts both the WebSocket control connection and GET /download.
C9_RecordedPortServesBoth ==
    /\ port_ret # 0 => ServesBoth(port_ret)
    /\ IsSome(p2p_info) => ServesBoth(Unwrap(p2p_info).port)

\* C10: when send_to_device has returned and create_group had succeeded, stop_group
\* has been called and the group is gone.
C10_GroupTornDownOnReturn ==
    (wf_entry = "send_to_device" /\ wf_pc = "returned" /\ IsSome(p2p_info))
        => (stop_calls > 0 /\ hotspots = {})

\* --------------------------------------------------- claims on Receiver::start
\* C11: when Receiver::start has returned and the Wi-Fi connect had succeeded, the
\* interface it connected on is no longer associated with the sender's hotspot.
C11_WifiReleasedOnReturn ==
    (rw_pc = "returned" /\ IsSome(rw_connected_on))
        => Unwrap(rw_connected_on) \notin assoc

\* ------------------------------------------------------ claims on SessionCipher
\* C18: decrypting, under the same key, what an encrypt call returned gives back the
\* string that was encrypted, whichever calls were made on the cipher before: every
\* call starts its keystream from AES_IV.
C18_EncryptDecryptRoundTrip ==
    \A i \in 1..Len(cr_calls), j \in 1..Len(cr_calls) :
        (cr_calls[i].op = "encrypt" /\ cr_calls[j].op = "decrypt"
            /\ cr_calls[j].arg = Unwrap(cr_calls[i].res))
           => cr_calls[j].res = Some(cr_calls[i].arg)

\* a non-empty string was encrypted twice and its ciphertext, which differs from it,
\* decrypted afterwards
C18_Witness ==
    /\ Len(cr_calls) = 3
    /\ cr_calls[1].op = "encrypt"
    /\ cr_calls[2].op = "encrypt"
    /\ cr_calls[3].op = "decrypt"
    /\ Len(cr_msg) = MaxStrLen
    /\ cr_calls[3].arg = Unwrap(cr_calls[1].res)
    /\ cr_calls[3].res = Some(cr_msg)
    /\ ApplyKeystream(cr_key, AesIv, cr_msg) # cr_msg

\* ------------------------------------------------- BLE handshake: the claims
\* The GATT operation is among those the running or last call performed.
Did(op) == \E i \in 1..Len(bc_ops) : bc_ops[i] = op

\* C12: once connect_and_handshake has connected to the peripheral, it disconnects
\* from it on every exit path: a call that returned after connecting has called
\* peripheral.disconnect.
C12_DisconnectOnEveryExit ==
    (bc_pc = "returned" /\ Did("connect")) => Did("disconnect")

\* The P2pInfo a handled write carried, an Option.
Written(w) == P2pInfoFromJson(w.data)

\* C13: in every P2pInfo the GATT server emits, key is absent only if the write
\* carried no key or ssid, psk and mac were all decrypted successfully; a field
\* whose decryption failed is never emitted with key cleared.
C13_KeyClearedOnlyWhenDecrypted ==
    \A i \in 1..Len(gs_writes) :
        LET w == gs_writes[i]
        IN  (w.handled.ok /\ Unwrap(w.handled.event).p2p_info.key = None)
                => \/ Unwrap(Written(w)).key = None
                   \/ /\ w.handled.decrypted # None
                      /\ \A f \in Fields : Unwrap(w.handled.decrypted)[f]

\* The handler accepted the write.
IsAccepted(w) == w.handled.ok

\* The events of the accepted writes, in the order the writes arrived.
EventsOfWrites ==
    LET accepted == SelectSeq(gs_writes, IsAccepted)
    IN  [i \in 1..Len(accepted) |-> Unwrap(accepted[i].handled.event)]

\* C14: every P2P_CHAR write that parses as P2pInfo produces exactly one
\* P2pReceiveEvent, the events reach the consumer in the order the writes arrived,
\* and with 16 events pending a further write waits for capacity: the events
\* received, those pending and those of the waiting writes are, in this order,
\* the events of the accepted writes, and a write waits only at a full channel.
C14_OneEventPerWriteInOrder ==
    /\ EventsOfWrites = p2p_received \o p2p_chan \o p2p_waiting
    /\ Len(p2p_chan) <= P2pChannelCapacity
    /\ p2p_waiting # <<>> => Len(p2p_chan) = P2pChannelCapacity

C14_Witness ==
    /\ Len(p2p_chan) = P2pChannelCapacity
    /\ p2p_waiting # <<>>
    /\ p2p_received # <<>>

\* C15: a key pair is single-use: across the handshakes and P2P writes of a
\* session each private key takes part in at most one key agreement.
C15_KeyPairSingleUse ==
    \A i \in 1..Len(agreements), j \in 1..Len(agreements) :
        agreements[i].inst = agreements[j].inst => i = j

\* The position of the GATT operation among those of the call, 0 when absent.
OpIndex(op) ==
    IF Did(op) THEN CHOOSE i \in 1..Len(bc_ops) : bc_ops[i] = op ELSE 0

\* The P2pInfo the call wrote to P2P_CHAR.
WrittenByCall == Unwrap(Written(gs_writes[bc_write]))

\* The written P2pInfo carries the public key of a key pair whose agreement with
\* the peer's key gives the key under which ssid, psk and mac are the
\* ciphertexts of the caller's values.
EncryptedUnderAgreedKey(w, peer_key) ==
    \E scalar \in Scalars :
        /\ w.key = Some(GetPublicKey(scalar))
        /\ DeriveSessionKey(scalar, peer_key) # None
        /\ LET k == Unwrap(DeriveSessionKey(scalar, peer_key))
           IN  /\ Decrypt(k, w.ssid) = Some(bc_input.ssid)
               /\ Decrypt(k, w.psk) = Some(bc_input.psk)
               /\ Decrypt(k, w.mac) = Some(bc_input.mac)

\* C16: connect_and_handshake writes to P2P_CHAR only after STATUS_CHAR was read
\* and parsed as DeviceInfo; the P2pInfo it writes carries a key, with ssid, psk
\* and mac replaced by ciphertexts under the agreed session key, if and only if
\* the DeviceInfo it read carried a key; and if key agreement fails nothing is
\* written.
C16_WriteFollowsStatus ==
    /\ Did("write_p2p") =>
          /\ 0 < OpIndex("read_status")
          /\ OpIndex("read_status") < OpIndex("write_p2p")
          /\ bc_device_info # None
          /\ bc_write > 0
          /\ Written(gs_writes[bc_write]) # None
          /\ WrittenByCall.port = bc_input.port
          /\ IF Unwrap(bc_device_info).key # None
             THEN /\ WrittenByCall.key # None
                  /\ EncryptedUnderAgreedKey(WrittenByCall, Unwrap(Unwrap(bc_device_info).key))
             ELSE WrittenByCall = bc_input
    /\ (bc_result.tag = "Err" /\ bc_result.err \in {"Key exchange failed", "Failed to init security"})
          => (~Did("write_p2p") /\ bc_write = 0)

C16_Witness ==
    /\ bc_result.tag = "Ok"
    /\ Did("write_p2p")
    /\ Unwrap(bc_device_info).key # None
    /\ Len(bc_input.ssid) = MaxStrLen
    /\ WrittenByCall.ssid # bc_input.ssid
    /\ WrittenByCall.ssid # Base64Encode(bc_input.ssid)

\* The P2pInfo the receiver obtained from the call's write.
ObtainedByReceiver == Unwrap(gs_writes[bc_write].handled.event).p2p_info

\* The DeviceInfo the call read carries the public key of the security context
\* the GATT server holds.
StatusCarriesReceiverKey ==
    /\ gs_security # None
    /\ bc_device_info # None
    /\ Unwrap(bc_device_info).key = Some(GetPublicKey(Unwrap(gs_security).scalar))

\* C17: when a sender performs the handshake against a receiver whose DeviceInfo
\* carries the receiver's public key, the P2pInfo the receiver obtains after
\* parsing and decrypting the written blob has ssid, psk, mac and port equal to
\* the sender's plaintext values.
C17_ReceiverObtainsPlaintext ==
    (Did("write_p2p") /\ StatusCarriesReceiverKey) =>
        /\ gs_writes[bc_write].handled.ok
        /\ ObtainedByReceiver.ssid = bc_input.ssid
        /\ ObtainedByReceiver.psk = bc_input.psk
        /\ ObtainedByReceiver.mac = bc_input.mac
        /\ ObtainedByReceiver.port = bc_input.port

C17_Witness ==
    /\ Did("write_p2p")
    /\ StatusCarriesReceiverKey
    /\ Len(bc_input.ssid) = MaxStrLen
    /\ WrittenByCall.ssid # bc_input.ssid
    /\ ObtainedByReceiver.ssid = bc_input.ssid
    /\ ObtainedByReceiver.key = None
    /\ Keystream(Unwrap(DeriveSessionKey(Unwrap(gs_security).scalar, Unwrap(WrittenByCall.key))), AesIv, 1) # 0

\* --------------------------------------------------------- scanner: the claims
\* How often the callback was called with a device of the address.
CallbacksFor(addr) ==
    Cardinality({i \in 1..Len(sc_callbacks) : sc_callbacks[i].address = addr})

\* C19: BleScanner::scan invokes the callback at most once per address and
\* exactly once, with the entry, for each address in the returned set; the
\* returned set holds at most one entry per address; and the entry of an address
\* is its first matching observation, which no later event replaces.
C19_FirstObservationOncePerAddress ==
    /\ \A a \in Addresses : CallbacksFor(a) <= 1
    /\ \A a \in Addresses :
          discovered_map[a] # None =>
              /\ discovered_map[a] = sc_first[a]
              /\ Unwrap(discovered_map[a]).address = a
              /\ sc_callback =>
                    /\ CallbacksFor(a) = 1
                    /\ \E i \in 1..Len(sc_callbacks) : sc_callbacks[i] = Unwrap(discovered_map[a])
    /\ \A a \in Addresses : discovered_map[a] = None => CallbacksFor(a) = 0
    /\ sc_pc = "returned" =>
          /\ \A d1 \in sc_result, d2 \in sc_result : d1.address = d2.address => d1 = d2
          /\ \A a \in Addresses :
                discovered_map[a] # None => Unwrap(discovered_map[a]) \in sc_result
          /\ \A d \in sc_result : discovered_map[d.address] = Some(d)

C19_Witness ==
    /\ sc_pc = "returned"
    /\ sc_callback
    /\ sc_events = MaxScanEvents
    /\ Cardinality(sc_result) = 2
    /\ Len(sc_callbacks) = 2
    /\ sc_passed # None
    /\ Unwrap(sc_passed).result.tag = "Some"
    /\ Some(Unwrap(sc_passed).result.dev) # discovered_map[Unwrap(sc_passed).address]

\* The name holds a known brand name.
NameMatchesBrand(name) ==
    name # None /\ \E i \in 1..Len(Unwrap(name)) : Unwrap(name)[i] \in KnownBrands

\* The UUID is 0000333x-0000-1000-8000-00805f9b34fb with x in 1..4.
InMtaRange(u) == u \in {Uuid(0, 0, 51, x, TRUE) : x \in {49, 50, 51, 52}}

\* C20: the scan decoder yields a DiscoveredDevice whenever (a) a listed UUID is
\* 0000333[1-4] with the standard base, or (b) service data is keyed by such a
\* UUID or by 0000ffff, or (c) manufacturer data has key 0x038F, or (d) the local
\* name matches a known brand keyword.
C20_DecoderYieldsOnAnyMark ==
    sc_last # None =>
        LET props == Unwrap(sc_last).props
        IN  (/\ props.fail = "none"
             /\ \/ \E u \in props.uuids : InMtaRange(u)
                \/ \E u \in props.service_data : InMtaRange(u) \/ u = Uuid(0, 0, 255, 255, TRUE)
                \/ ManufIdXiaomi \in props.manuf_data
                \/ NameMatchesBrand(props.name))
            => Unwrap(sc_last).result.tag = "Some"


\* ------------------------------------------------ Wi-Fi sender: the claims
\* C21: the bearer layer returns success only with a local IPv4 address in
\* hand: a create_group that returned Ok had obtained an address of the bearer
\* interface, whichever backend made the group.
C21_OkOnlyWithIp ==
    (gp_last # None /\ Unwrap(gp_last).op = "create_group" /\ Unwrap(gp_last).ok)
        => Unwrap(gp_last).ip # None

\* What this sender created that exists on the host.
LiveAssociations ==
    {[kind |-> "nm", name |-> c.name] : c \in nm_connections}
        \cup {[kind |-> "wpa", name |-> g] : g \in wpa_groups}

\* C22: after any sequence of create_group and stop_group calls at most one
\* hotspot or NM connection created by the sender exists, and it is the one
\* recorded in active_hotspot.
C22_AtMostOneLiveAssociation ==
    /\ Cardinality(nm_connections) + Cardinality(wpa_groups) <= 1
    /\ \A a \in LiveAssociations :
          /\ gp_active_hotspot # None
          /\ Unwrap(gp_active_hotspot).connection_name = a.name

\* C23: every NM connection object create_group added is deleted by the time a
\* following stop_group has returned, its cleanup commands having succeeded.
C23_AddedConnectionsDeleted ==
    (gp_last # None /\ Unwrap(gp_last).op = "stop_group" /\ Unwrap(gp_last).cleanup_ok)
        => nm_connections = {}

\* ------------------------------------------------- the download: the claims
\* The request served by this step, when the step served one.
ServedNow == dl_log'[Len(dl_log')]

HoldsFileData(response) == response.body.tag = "zip"

\* C24 as stated: GET /download answers 404 without file data when the query's
\* taskId differs from the task's id, answers with the ZIP body when they are
\* equal, and leaves the task the server holds as it was.
C24_DownloadByTaskId ==
    [][Len(dl_log') > Len(dl_log) =>
        /\ ServedNow.query_task_id # dl_task.task_id =>
              /\ ServedNow.response.status = 404
              /\ ~HoldsFileData(ServedNow.response)
        /\ ServedNow.query_task_id = dl_task.task_id =>
              HoldsFileData(ServedNow.response)
        /\ dl_task' = dl_task]_vars

\* C24, amended: on equal ids the answer is the ZIP body when every file of the
\* task can be read, and 500 without file data when one cannot; the rest as
\* stated.
C24_DownloadByTaskIdOrInternalError ==
    [][Len(dl_log') > Len(dl_log) =>
        /\ ServedNow.query_task_id # dl_task.task_id =>
              /\ ServedNow.response.status = 404
              /\ ~HoldsFileData(ServedNow.response)
        /\ (ServedNow.query_task_id = dl_task.task_id
                /\ Readable(dl_task.files, dl_fs)) =>
              /\ ServedNow.response.status = 200
              /\ ServedNow.response.body = CreateZipResponse(dl_task.files, dl_fs).value
        /\ (ServedNow.query_task_id = dl_task.task_id
                /\ ~Readable(dl_task.files, dl_fs)) =>
              /\ ServedNow.response.status = 500
              /\ ~HoldsFileData(ServedNow.response)
        /\ dl_task' = dl_task]_vars

\* One server answered 404 to another id and then the archive of a task with
\* files to its own id.
C24_Witness ==
    /\ Len(dl_log) = 2
    /\ dl_log[1].query_task_id # dl_task.task_id
    /\ dl_log[1].response.status = 404
    /\ dl_log[2].query_task_id = dl_task.task_id
    /\ dl_log[2].response.status = 200
    /\ Len(dl_log[2].response.body.entries) = Len(dl_task.files)
    /\ dl_task.files # <<>>

\* The archive the server sent for its task, when the last request got one.
SentZip == dl_log[Len(dl_log)].response.body

\* C25: the archive holds exactly one entry per file of the task, named
\* i/name_i in index order, and extraction returns the paths output_dir/name_i
\* in the same order, the file at the i-th path holding the contents of f_i.
C25_ZipRoundTrip ==
    (rx_files # None /\ Unwrap(rx_files).tag = "Ok") =>
        LET files == dl_task.files
            paths == Unwrap(rx_files).value
        IN  /\ Len(SentZip.entries) = Len(files)
            /\ \A i \in 1..Len(files) :
                  SentZip.entries[i].name = EntryName(i - 1, files[i].name)
            /\ Len(paths) = Len(files)
            /\ \A i \in 1..Len(files) :
                  /\ paths[i] = OutputPath(files[i].name)
                  /\ rx_output_dir[paths[i].name] = Unwrap(dl_fs[files[i].path])

\* The same with file names that differ pairwise.
C25_DistinctNames ==
    (\A i, j \in 1..Len(dl_task.files) :
        dl_task.files[i].name = dl_task.files[j].name => i = j) => C25_ZipRoundTrip

\* ------------------------------------------------ the message text: the claim
\* C26: for every text that WsMessage::parse accepts, parsing the formatted
\* form of the parsed message yields a message equal to it in kind, id, name
\* and payload.
C26_ParseFormatRoundTrip ==
    ws_pc = "reparsed" =>
        /\ ws_reparsed # None
        /\ Unwrap(ws_reparsed).msg_type = Unwrap(ws_msg).msg_type
        /\ Unwrap(ws_reparsed).id = Unwrap(ws_msg).id
        /\ Unwrap(ws_reparsed).name = Unwrap(ws_msg).name
        /\ Unwrap(ws_reparsed).payload = Unwrap(ws_msg).payload

\* A text with a payload that is not the text its message formats to went
\* round.
C26_Witness ==
    /\ ws_pc = "reparsed"
    /\ Unwrap(ws_msg).payload # None
    /\ ws_formatted # ws_text
    /\ Unwrap(ws_msg).id > 9

\* ------------------------------------------- starting to advertise: the claim
\* C27: a start that got as far as advertising tried the management-socket
\* legacy advertiser first and the high-level advertisement API only after it;
\* without the privileged management socket, start still succeeds through the
\* high-level API.
C27_MgmtFirstThenFallback ==
    (adv_pc = "returned" /\ adv_tried # <<>>) =>
        /\ adv_tried[1] = "mgmt"
        /\ \A i \in 1..Len(adv_tried) : adv_tried[i] = "advertise" => i > 1
        /\ (~mgmt_socket /\ adv_handle # None) => Unwrap(adv_ret).tag = "Ok"

\* The second half alone: without the management socket, a start whose
\* advertisement the adapter took returns Ok.
C27_StartsWithoutMgmtSocket ==
    (adv_pc = "returned" /\ ~mgmt_socket /\ adv_handle # None) =>
        Unwrap(adv_ret).tag = "Ok"

\* ------------------------------------- the receiver's other frames: the claims
\* The frame read by this step, when the step read one.
FrameReadNow == trace'[Len(trace) + 1].frame

\* This step read a text frame that parses to an action named neither
\* versionNegotiation nor sendRequest.
ReadsOtherAction ==
    /\ pc = "loop"
    /\ Len(trace') > Len(trace)
    /\ trace'[Len(trace) + 1].ev = "recv"
    /\ Parse(FrameReadNow) # None
    /\ FrameReadNow.msg_type = "action"
    /\ FrameReadNow.name \notin {"versionNegotiation", "sendRequest"}

\* C28: on an action named neither versionNegotiation nor sendRequest the
\* receiver makes one write.send of an ack with the same id and name and no
\* payload; the remembered task id, the total size and its own message id stay
\* as they were, and with the ack sent it is back at reading the next message
\* (a failed send ends start with the send's error).
C28_OtherActionsAcked ==
    [][ReadsOtherAction =>
        /\ Len(trace') = Len(trace) + 2
        /\ trace'[Len(trace) + 2].ev = "send"
        /\ trace'[Len(trace) + 2].msg =
              WsMessage("ack", FrameReadNow.id, FrameReadNow.name, None)
        /\ task_id' = task_id /\ total_size' = total_size /\ msg_id' = msg_id
        /\ trace'[Len(trace) + 2].ok => (pc' = "loop" /\ result' = result)
        /\ ~trace'[Len(trace) + 2].ok => (pc' = "returned" /\ result' = "Err:send")]_vars

\* A status action read with id 1 was acked with id 1 and the receiver reads on.
C28_Witness ==
    /\ pc = "loop"
    /\ \E i \in Idx :
          /\ IsRecvNamed(i, "status")
          /\ trace[i].frame.msg_type = "action"
          /\ trace[i].frame.id = 1
          /\ i = Len(trace) - 1
          /\ trace[i + 1] = Send(WsAck(1, "status", None), TRUE)

\* trace[i] is the read of a close, of the end of the stream, or of an error
IsRecvClosed(i) ==
    /\ trace[i].ev = "recv"
    /\ trace[i].frame.kind \in {"close", "end", "error"}

\* C29: when the WebSocket closes, ends or yields an error and no sendRequest
\* was accepted before, start returns an error; the session holds no download
\* request and no status message.
C29_ClosedBeforeAcceptFails ==
    \A i \in Idx :
        (IsRecvClosed(i)
            /\ \A j \in 1..i : ~(trace[j].ev = "on_send_request" /\ trace[j].accept)) =>
            /\ pc = "returned"
            /\ result \in {"Err:No task ID received", "Err:WebSocket"}
            /\ \A j \in Idx :
                  /\ trace[j].ev # "get"
                  /\ ~(trace[j].ev = "send" /\ trace[j].msg.msg_type = "action"
                          /\ trace[j].msg.name = "status")
                  /\ trace[j].ev \notin {"download_ok", "on_complete"}

\* The peer closed after the version negotiation: start failed for want of a
\* task id.
C29_Witness ==
    /\ pc = "returned"
    /\ result = "Err:No task ID received"
    /\ Len(trace) = 3
    /\ IsRecvNamed(1, "versionNegotiation")
    /\ trace[2].ev = "send"
    /\ IsRecvClosed(3)

\* ------------------------------------------------ the brand mapping: the claim
\* The ranges of the reference table, the two ids listed on their own aside.
ReferenceRanges ==
    { [ids |-> 10..19, brand |-> "Oppo"], [ids |-> 20..29, brand |-> "Vivo"],
      [ids |-> 30..39, brand |-> "Xiaomi"], [ids |-> 41..45, brand |-> "OnePlus"],
      [ids |-> 50..59, brand |-> "Meizu"], [ids |-> 60..69, brand |-> "Nubia"],
      [ids |-> 70..75, brand |-> "Samsung"], [ids |-> 80..89, brand |-> "Zte"],
      [ids |-> 90..95, brand |-> "Smartisan"], [ids |-> 100..109, brand |-> "Lenovo"],
      [ids |-> 110..119, brand |-> "Motorola"], [ids |-> 120..129, brand |-> "Nio"],
      [ids |-> 140..149, brand |-> "Honor"],
      [ids |-> ((-86)..(-77)) \cup (170..179), brand |-> "Hisense"],
      [ids |-> {-96, 160}, brand |-> "Rog"],
      [ids |-> ((-95)..(-87)) \cup (161..169), brand |-> "Asus"] }

\* C30: every signed 16-bit id has a brand; 11 is Realme and 32 BlackShark
\* whatever range encloses them, every other id of a listed range has the
\* range's brand (-96 and 160 Rog, -95..-87 and 161..169 Asus, -86..-77 and
\* 170..179 Hisense), and every id outside the listed ranges is Unknown(id).
C30_BrandMappingTotal ==
    br_brand # None =>
        LET b == Unwrap(br_brand)
        IN  /\ br_id = 11 => b = Brand("Realme")
            /\ br_id = 32 => b = Brand("BlackShark")
            /\ \A r \in ReferenceRanges :
                  (br_id \in r.ids \ {11, 32}) => b = Brand(r.brand)
            /\ (\A r \in ReferenceRanges : br_id \notin r.ids) => b = BrandUnknown(br_id)

\* An id inside a range that has a brand of its own went through the mapping.
C30_Witness ==
    /\ br_id = 11
    /\ br_brand = Some(Brand("Realme"))

\* ---------------------------------------- the legacy advertisement: the claims
AdvData == Unwrap(mg_config).adv_data
ScanRspData == Unwrap(mg_config).scan_rsp_data

\* adv_data is at most 31 bytes and, for service UUID 0x3331, starts with
\* 02 01 06 03 03 31 33; scan_rsp_data is at most 31 bytes.
AdvWithinLegacyLimits ==
    /\ Len(AdvData) <= 31
    /\ mg_args.service_uuid = AdvServiceUuid =>
          Take(AdvData, 7) = <<2, 1, 6, 3, 3, 49, 51>>
    /\ Len(ScanRspData) <= 31

C38_ActiveIffRegistered ==
    mg_client =>
        /\ mg_active <=> (Unwrap(mg_config).instance \in mg_instances)
        /\ Cardinality(mg_instances) <= 1

\* The second part alone: at most one instance is ever registered.
C38_SingleInstance == Cardinality(mg_instances) <= 1

\* ------------------------------------------------------ settings: the claim
\* C32: loading a file in which some fields are missing returns the stored
\* value of every field that is present and the default of every missing one;
\* a missing file yields all defaults.
C32_MissingFieldsDefaulted ==
    st_settings # None =>
        /\ st_file.kind = "missing" => Unwrap(st_settings) = SettingsDefault
        /\ st_file.kind = "toml" =>
              \A f \in SettingsFields :
                  Unwrap(st_settings)[f] =
                      IF f \in st_file.fields THEN SettingsStored[f] ELSE SettingsDefault[f]

\* The parts that hold: a missing file yields all defaults, a file with every
\* field yields the stored values.
C32_AllOrNothing ==
    st_settings # None =>
        /\ st_file.kind = "missing" => Unwrap(st_settings) = SettingsDefault
        /\ st_file = TomlTable(SettingsFields) => Unwrap(st_settings) = SettingsStored
        /\ (st_file.kind = "toml" /\ st_file.fields # SettingsFields) =>
              Unwrap(st_settings) = SettingsDefault

\* -------------------------------------- the receiver's sendRequest: the claim
\* This step read a text frame that parses to an action named sendRequest.
ReadsSendRequest ==
    /\ pc = "loop"
    /\ Len(trace') > Len(trace)
    /\ trace'[Len(trace) + 1].ev = "recv"
    /\ Parse(FrameReadNow) # None
    /\ FrameReadNow.msg_type = "action"
    /\ FrameReadNow.name = "sendRequest"

\* The step that read the sendRequest answered it: it made a write.send of the
\* ack of that message or of a status with type 3, or start returned with a
\* protocol error.
SendRequestAnswered ==
    \/ \E j \in (Len(trace) + 2)..Len(trace') :
          /\ trace'[j].ev = "send"
          /\ \/ trace'[j].msg = WsAck(FrameReadNow.id, "sendRequest", None)
             \/ /\ trace'[j].msg.msg_type = "action"
                /\ trace'[j].msg.name = "status"
                /\ Unwrap(trace'[j].msg.payload).type = StatusRefused
    \/ pc' = "returned" /\ result' = "Err:Protocol error"

\* C33: every sendRequest the receiver receives is answered with an ack, a
\* status with type 3 or a protocol error, also when it carries no payload or a
\* payload that is not valid JSON; it is never ignored with the receiver left
\* waiting.
C33_SendRequestAnswered ==
    [][ReadsSendRequest => SendRequestAnswered]_vars

\* The part that holds: a sendRequest whose payload is a JSON document is
\* answered.
C33_JsonSendRequestAnswered ==
    [][(ReadsSendRequest /\ FrameReadNow.payload.q = "json") => SendRequestAnswered]_vars

\* ---------------------------------------- the sender's sendRequest: the claim
\* The write.send calls of a sendRequest action on this connection.
SendRequestSends ==
    {j \in SrvIdx : /\ IsSrvSend(j)
                    /\ srv_trace[j].msg.msg_type = "action"
                    /\ srv_trace[j].msg.name = "sendRequest"}

\* The versionNegotiation acks read on this connection.
VersionAcksRead == {i \in SrvIdx : IsSrvRecv(i, "ack", "versionNegotiation")}

\* C34: the sender sends at most one sendRequest action on a WebSocket
\* connection, whatever messages the peer sends, repeated versionNegotiation
\* acks among them.
C34_AtMostOneSendRequest == Cardinality(SendRequestSends) <= 1

\* What the handler does: one sendRequest for every versionNegotiation ack it
\* reads, each with the next message id.
C34_OneSendRequestPerAck ==
    /\ Cardinality(SendRequestSends) = Cardinality(VersionAcksRead)
    /\ \A j \in SendRequestSends :
          srv_trace[j].msg.id = Cardinality({k \in SendRequestSends : k <= j})

\* ------------------------------------------- terminal statuses: the claim
IsTerminal(status) == status.s \in {"Completed", "Rejected", "Failed"}

\* The terminal statuses the subscriber was handed.
TerminalReceived ==
    {i \in 1..Len(Unwrap(mc_status_rx)) : IsTerminal(Unwrap(mc_status_rx)[i])}

\* C35: for the server's one TransferTask at most one terminal status
\* (Completed, Rejected or Failed) is broadcast to the status subscribers, also
\* with several WebSocket connections handled concurrently.
C35_AtMostOneTerminalStatus ==
    mc_status_rx # None => Cardinality(TerminalReceived) <= 1

\* What holds: one connection hands at most one terminal status to status_tx,
\* as its last act.
C35_AtMostOnePerConnection ==
    \A c \in Conns :
        /\ Cardinality({i \in 1..Len(mc_sent) :
                          mc_sent[i].conn = c /\ IsTerminal(mc_sent[i].status)}) <= 1
        /\ (\E i \in 1..Len(mc_sent) : mc_sent[i].conn = c) => mc_conns[c].pc = "returned"

\* ------------------------------------------ the completion event: the claim
\* The on_complete calls the progress sink has had.
CompletionsDelivered ==
    Cardinality({i \in 1..Len(rw_events) : rw_events[i] = "on_complete"})

\* C36: a run of Receiver::start that returns Ok has delivered on_complete to
\* the progress sink exactly once, a run that returns an error not at all.
C36_CompletionExactlyOnce ==
    rw_pc = "returned" =>
        CompletionsDelivered = (IF rw_result = "Ok" THEN 1 ELSE 0)

\* What holds: a failing run delivers no completion, a successful one two, the
\* first while the client returns and the second after disconnect.
C36_CompletionTwiceOrNever ==
    /\ rw_pc = "returned" =>
          CompletionsDelivered = (IF rw_result = "Ok" THEN 2 ELSE 0)
    /\ rw_pc = "disconnect" => CompletionsDelivered = 1

\* ------------------------------------------- the main interface: the claim
\* C37: WiFiP2pReceiver never deletes the configured main interface. In every
\* state reached through connect, with any backend failures, and disconnect,
\* created_virtual_interface is true only while active_interface is the virtual
\* interface <main>_p2p, so disconnect and Drop remove only that interface; and
\* after disconnect active_interface, network_id and created_virtual_interface
\* are reset.
C37_MainInterfaceNeverDeleted ==
    /\ MainInterface \in ifaces
    /\ created_virtual_interface => active_interface = Some(VirtualInterface)
    /\ disconnect_calls > 0 =>
          /\ active_interface = None
          /\ network_id = None
          /\ ~created_virtual_interface

\* The last part alone: after disconnect the three fields are reset.
C37_ResetAfterDisconnect ==
    disconnect_calls > 0 =>
        /\ active_interface = None
        /\ network_id = None
        /\ ~created_virtual_interface

\* The main interface is gone only after a connect that created the virtual
\* interface and then fell back to the main one.
C37_VirtualFlagOnMainInterface ==
    /\ created_virtual_interface =>
          active_interface \in {Some(VirtualInterface), Some(MainInterface)}
    /\ MainInterface \notin ifaces => VirtualInterface \in ifaces

\* ------------------------------------------- advertised metadata: the claim
\* The entry of the advertised service data under this UUID, as a set.
EntriesUnder(uuid) == {e \in Unwrap(md_service_data) : e.uuid = uuid}

\* C39: for every brand id b in 0..255, 5 GHz flag f and random data r the
\* server advertises 6 bytes under the capability UUID 0000XXYY-... (XX the
\* flag, YY the brand) and 27 bytes under 0000ffff-..., and the scanner's
\* parse_service_metadata decodes them to brand_id = b, supports_5ghz = f and
\* the sender_id string of the server itself.
C39_EncodeDecodeAgree ==
    /\ md_service_data # None =>
          /\ \E e \in EntriesUnder(Uuid(0, 0, IF Unwrap(md_server).supports_5ghz THEN 1 ELSE 0,
                                        Unwrap(md_server).brand_id, TRUE)) :
                Len(e.data) = 6
          /\ \E e \in EntriesUnder(ScanRespUuid) : Len(e.data) = 27
          /\ Cardinality(Unwrap(md_service_data)) = 2
    /\ md_metadata # None =>
          /\ Unwrap(md_metadata).brand_id = Some(Unwrap(md_server).brand_id)
          /\ Unwrap(md_metadata).supports_5ghz = Unwrap(md_server).supports_5ghz
          /\ Unwrap(md_metadata).sender_id = Unwrap(md_server).sender_id

\* The advertisement of a 5 GHz server of brand 255 with random data 00 ff and a
\* 16-byte name was decoded, its sender_id being "00ff".
C39_Witness ==
    /\ md_metadata # None
    /\ Unwrap(md_server).brand_id = 255
    /\ Unwrap(md_server).supports_5ghz
    /\ Unwrap(md_server).random_data = <<0, 255>>
    /\ Len(Unwrap(md_server).device_name) = 16
    /\ Unwrap(md_metadata) = Metadata(<<"0", "0", "f", "f">>, Some(255), TRUE)

====
